---- MODULE Spec2Model ----
(***************************************************************************)
(* A model of jupylet's sound engine (src/jupylet/sound.py): the worker    *)
(* thread that owns the output stream, the queue of currently playing      *)
(* sounds, the foreground Sample operations and the audio callback, which  *)
(* runs on the audio driver's thread and interleaves with the foreground   *)
(* statement by statement.                                                 *)
(*                                                                         *)
(* Numbers.  A sample value, an amplitude, a pan and an envelope level is  *)
(* an exact rational <<n, d>> in lowest terms.  A time (duration, attack,  *)
(* ...) is held as the integer k that stands for the double nearest to     *)
(* k / 44100 seconds; int(FPS * t) on such a double is T2F(k), which is    *)
(* k - 1 for the k whose product rounds below k.                           *)
(***************************************************************************)
EXTENDS Integers, Sequences, FiniteSets, TLC

FPS == 44100

\* Bounds of the model.
MaxSounds == 3
MaxOps == 2
MaxCallbacks == 2
MaxSites == 2
MaxCalls == 3
MaxTime == 4
MaxQuarters == 64
MaxNoteLen == 3
MaxCycles == 3
MaxWaveFrames == 5
MaxChannels == 3

-----------------------------------------------------------------------------
\* Exact rational arithmetic, as functions on the values.

GCD[a \in Nat, b \in Nat] == IF b = 0 THEN a ELSE GCD[b, a % b]

Abs(n) == IF n < 0 THEN -n ELSE n

Min(a, b) == IF a < b THEN a ELSE b

Max(a, b) == IF a < b THEN b ELSE a

RECURSIVE SumSeq(_)
SumSeq(q) == IF q = <<>> THEN 0 ELSE Head(q) + SumSeq(Tail(q))

Rat[n \in Int, d \in Int] ==
    LET g == GCD[Abs(n), Abs(d)]
        s == IF d < 0 THEN -1 ELSE 1
    IN  IF n = 0 THEN <<0, 1>> ELSE <<s * (n \div g), s * (d \div g)>>

RMul[x \in Int \X Int, y \in Int \X Int] ==
    LET g1 == GCD[Abs(x[1]), y[2]]
        g2 == GCD[Abs(y[1]), x[2]]
    IN  IF x[1] = 0 \/ y[1] = 0 THEN <<0, 1>>
        ELSE <<(x[1] \div g1) * (y[1] \div g2), (x[2] \div g2) * (y[2] \div g1)>>

RAdd[x \in Int \X Int, y \in Int \X Int] ==
    LET g == GCD[x[2], y[2]]
    IN  Rat[x[1] * (y[2] \div g) + y[1] * (x[2] \div g), (x[2] \div g) * y[2]]

RNeg(x) == <<-x[1], x[2]>>

RLess(x, y) == x[1] * y[2] < y[1] * x[2]

RZero == <<0, 1>>

ROne == <<1, 1>>

\* ndarray.clip(lo, hi) on one value.
RClip(x, lo, hi) == IF RLess(x, lo) THEN lo ELSE IF RLess(hi, x) THEN hi ELSE x

\* x / y, y not zero.
RDiv(x, y) == RMul[x, Rat[y[2], y[1]]]

\* floor(x)
RFloor(x) == IF x[1] >= 0 THEN x[1] \div x[2] ELSE -((-x[1] + x[2] - 1) \div x[2])

\* x % 1 for a non-negative x.
RFrac(x) == Rat[x[1] % x[2], x[2]]

RMin(x, y) == IF RLess(y, x) THEN y ELSE x

RMax(x, y) == IF RLess(x, y) THEN y ELSE x

RSub(x, y) == RAdd[x, RNeg(y)]

\* x % m as Python computes it: the remainder has the sign of m.
RMod(x, m) == RSub(x, RMul[m, <<RFloor(RDiv(x, m)), 1>>])

\* round(x) to an integer, a half going to the even neighbour.
RRound(x) ==
    LET lo == RFloor(x)
        r2 == 2 * (x[1] - lo * x[2])
    IN  IF r2 < x[2] THEN lo
        ELSE IF r2 > x[2] THEN lo + 1
        ELSE IF lo % 2 = 0 THEN lo ELSE lo + 1

-----------------------------------------------------------------------------
\* Time <-> frames.

RECURSIVE OddPart(_)
OddPart(k) == IF k > 0 /\ k % 2 = 0 THEN OddPart(k \div 2) ELSE k

\* The odd k below 1024 for which the double product 44100 * (k / 44100) is
\* just below k; doubling k scales both roundings exactly.
InexactOdd ==
    {15, 23, 53, 197, 199, 225, 227, 253, 255, 353, 357, 379, 383, 409, 413,
     435, 439, 465, 469, 491, 495, 695, 717, 725, 747, 755, 777, 799, 807,
     829, 837, 859, 867, 889, 911, 919, 941, 949, 971, 979, 1001, 1009, 1023}

\* int(FPS * t) for the double t nearest to k / FPS.
T2F(k) == IF OddPart(k) \in InexactOdd THEN k - 1 ELSE k

\* frames2t(frames): the double nearest to frames / FPS, held as frames.
frames2t(frames) == frames

\* t2frames(t) = int(FPS * t) for the double t nearest to q / (4 * FPS), q
\* quarter frames: the product is within an ulp of q / 4, so the truncation
\* drops the fraction, and at a whole number of frames it is T2F.
t2frames(q) == IF q % 4 = 0 THEN T2F(q \div 4) ELSE q \div 4

-----------------------------------------------------------------------------
\* Sound files and the decode cache.

\* The double 0.01 (seconds), as the k it is nearest to k / FPS.
MinStage == 441

SustainMargin == 128

ZeroPad == 4096

GracePeriod == 8

\* What soundfile decodes from each path: a mono file comes back as a flat
\* array (ndim 1), any other as rows of channel values.
Paths == {1, 2, 3}

File(path) ==
    CASE path = 1 -> [ndim |-> 1, data |-> <<1, 1>>]
      [] path = 2 -> [ndim |-> 2, data |-> <<<<1, -1>>, <<-1, 1>>, <<1, 1>>>>]
      [] OTHER    -> [ndim |-> 2, data |-> [i \in 1 .. 2048 |-> <<1, 1, 0>>]]

load_sound(path, channels) ==
    LET f  == File(path)
        d0 == IF f.ndim = 1 THEN [i \in 1 .. Len(f.data) |-> <<f.data[i]>>]
              ELSE f.data
        w0 == IF Len(d0) = 0 THEN 0 ELSE Len(d0[1])
        d1 == IF w0 = 1 /\ channels > 1
              THEN [i \in 1 .. Len(d0) |-> [c \in 1 .. channels |-> d0[i][1]]]
              ELSE d0
        w1 == IF Len(d1) = 0 THEN 0 ELSE Len(d1[1])
    IN  IF w1 > channels
        THEN [i \in 1 .. Len(d1) |-> SubSeq(d1[i], 1, channels)]
        ELSE d1

\* The arrays Sample.load(channels=2) leaves in self.buffer, by path; buffer 0
\* is the empty list a sound holds before its first load.
Loaded == [p \in Paths |-> load_sound(p, 2)]

BufLen(b) == IF b = 0 THEN 0 ELSE Len(Loaded[b])

-----------------------------------------------------------------------------
\* The ADSR envelope.

\* numpy.linspace(a, b, n)[i], i counted from 0.
Linspace[a \in Int \X Int, b \in Int \X Int, n \in Nat, i \in Nat] ==
    IF n = 1 THEN a
    ELSE RAdd[a, RMul[RAdd[b, RNeg(a)], Rat[i, n - 1]]]

AdsrKey(o) ==
    <<o.duration, o.min_duration, o.attack, o.decay, o.sustain, o.release>>

\* The lengths and corner levels of the curve get_adsr builds from a key.
AdsrShape(adsr) ==
    LET ds == T2F(Max(adsr[1], adsr[2]))
        na == T2F(Max(adsr[3], MinStage))
        la == Min(na, Max(1, ds))
        av == Linspace[RZero, ROne, na, la - 1]
        nd == T2F(Max(adsr[4], MinStage))
        ld == Min(nd, Max(1, ds - la))
        dv == Linspace[av, adsr[5], nd, ld - 1]
        s0 == IF RLess(RZero, dv) THEN ds + SustainMargin ELSE 1
        ls == Min(s0, Max(1, ds - la - ld))
        nr == T2F(Max(adsr[6], MinStage))
    IN  [na |-> na, la |-> la, av |-> av, nd |-> nd, ld |-> ld, dv |-> dv,
         sv |-> adsr[5], ls |-> ls, nr |-> nr]

\* len(self.adsr1) for the curve of shape h.
AdsrLen(h) == h.la + h.ld + h.ls + h.nr + ZeroPad

\* Row i (from 0) of the curve of shape h: attack, decay, sustain, release,
\* zero pad.
AdsrRow(h, i) ==
    IF i < h.la THEN Linspace[RZero, ROne, h.na, i]
    ELSE IF i < h.la + h.ld THEN Linspace[h.av, h.sv, h.nd, i - h.la]
    ELSE IF i < h.la + h.ld + h.ls THEN h.dv
    ELSE IF i < h.la + h.ld + h.ls + h.nr
         THEN Linspace[h.dv, RZero, h.nr, i - h.la - h.ld - h.ls]
    ELSE RZero

\* Sample.get_adsr: the curve is rebuilt when the key differs from the cached
\* one; adsr1 holds the curve as its shape.
get_adsr(o) ==
    IF o.adsr0 = AdsrKey(o) THEN o
    ELSE [o EXCEPT !.adsr0 = AdsrKey(o), !.adsr1 = AdsrShape(AdsrKey(o))]

-----------------------------------------------------------------------------
\* Sample.

\* Sample.__init__
NewSample(path, amp, pan, loop, duration) ==
    [path |-> path, amp |-> amp, pan |-> pan,
     loop |-> (loop \/ duration > 0), duration |-> duration,
     min_duration |-> 0, attack |-> 0, decay |-> 0, sustain |-> ROne,
     release |-> 0, adsr0 |-> <<>>, adsr1 |-> <<>>,
     playing |-> FALSE, reset |-> FALSE, _stop |-> FALSE,
     channels |-> 0, buffer |-> 0, index |-> 0]

\* Sample.set_envelope(**kw): only the arguments given (not None) are set.
set_envelope(o, kw) ==
    [k \in DOMAIN o |-> IF k \in DOMAIN kw THEN kw[k] ELSE o[k]]

\* Sample.load(channels=2)
load(o) ==
    [o EXCEPT !.buffer = o.path,
              !.channels = IF BufLen(o.path) = 0 THEN 0 ELSE Len(Loaded[o.path][1]),
              !.reset = FALSE, !._stop = FALSE, !.index = 0]

\* A copy that keeps the playback position.
copyKeepsIndex(o) ==
    [o EXCEPT !.playing = FALSE, !.reset = FALSE, !._stop = FALSE]

\* Sample.copy() without overrides
copy(o) ==
    [o EXCEPT !.playing = FALSE, !.reset = FALSE, !._stop = FALSE, !.index = 0]

\* Sample.stop
stop(o) == [o EXCEPT !._stop = TRUE]

\* done that ignores the stop flag.
doneIgnoresStop(o) ==
    IF ~o.loop THEN o.index >= BufLen(o.buffer)
    ELSE IF o.duration = 0 THEN FALSE
    ELSE IF get_adsr(o).adsr1 = <<>> THEN FALSE
    ELSE IF AdsrLen(get_adsr(o).adsr1) <= o.index THEN TRUE
    ELSE IF o.index < GracePeriod THEN FALSE
    ELSE AdsrRow(get_adsr(o).adsr1, o.index) = RZero

\* done that needs the index to pass the end of the buffer.
doneStrictlyPast(o) ==
    IF o._stop THEN TRUE
    ELSE IF ~o.loop THEN o.index > BufLen(o.buffer)
    ELSE IF o.duration = 0 THEN FALSE
    ELSE IF get_adsr(o).adsr1 = <<>> THEN FALSE
    ELSE IF AdsrLen(get_adsr(o).adsr1) <= o.index THEN TRUE
    ELSE IF o.index < GracePeriod THEN FALSE
    ELSE AdsrRow(get_adsr(o).adsr1, o.index) = RZero

\* The value of the property Sample.done.
done(o) ==
    IF o._stop THEN TRUE
    ELSE IF ~o.loop THEN o.index >= BufLen(o.buffer)
    ELSE IF o.duration = 0 THEN FALSE
    ELSE IF get_adsr(o).adsr1 = <<>> THEN FALSE
    ELSE IF AdsrLen(get_adsr(o).adsr1) <= o.index THEN TRUE
    ELSE IF o.index < GracePeriod THEN FALSE
    ELSE AdsrRow(get_adsr(o).adsr1, o.index) = RZero

\* The object after done was read: the call of get_adsr refreshes the cache.
doneRead(o) ==
    IF o._stop \/ ~o.loop \/ o.duration = 0 THEN o ELSE get_adsr(o)

\* _ampan(amp, pan): the left and right gains.
_ampan(amp, pan) ==
    <<RMul[RAdd[ROne, RNeg(pan)], RMul[amp, <<1, 2>>]],
      RMul[RAdd[ROne, pan], RMul[amp, <<1, 2>>]]>>

-----------------------------------------------------------------------------
\* State.

VARIABLES
    snd,          \* the Sample objects, by identity (1 .. Len(snd))
    _soundsq,     \* the queue of currently playing sounds
    _worker_tid,  \* 0 is None
    threads,      \* the worker threads started: "opening", "running", "closed", "exited"
    _workerq,     \* number of items in the queue that keeps the stream running
    _al,          \* oscilloscope history: the frame count of each stored chunk
    _dt,          \* oscilloscope history: the frames field of each timing tuple
    outdata,      \* the output buffer, held as the contributions mixed into it
    fg,           \* the foreground thread: the call in progress and its locals
    cb,           \* the audio callback: its position and its locals
    hostframes,   \* the frame counts the audio driver asks for
    rq,           \* a second thread that may call _init_worker_thread()
    script,       \* the scripting helpers: the maps syd and dtd, and the clock
    call,         \* the call of a module function last made: name, arguments, result
    sprite,       \* the Sprite the program holds
    budget,       \* calls made so far: foreground calls (ops) and callbacks
    gh            \* history of calls, read by the properties only

vars == <<snd, _soundsq, _worker_tid, threads, _workerq, _al, _dt, outdata,
          fg, cb, hostframes, rq, script, call, sprite, budget, gh>>

\* The keyword arguments a call of play or play_new may carry.
Overrides ==
    <<[k \in {} |-> 0],
      [amp |-> <<1, 1>>, pan |-> <<1, 1>>],
      [duration |-> 0],
      [volume |-> <<1, 1>>, amp |-> <<1, 4>>],
      [duration |-> 1024, release |-> 600]>>

\* Overrides that set every key given, an attribute or not.
SetOverridesAny(o, ov) ==
    [k \in DOMAIN o \cup DOMAIN ov |-> IF k \in DOMAIN ov THEN ov[k] ELSE o[k]]

\* for k, v in kwargs.items(): if k in self.__dict__: setattr(self, k, v)
SetOverrides(o, ov) ==
    [k \in DOMAIN o |-> IF k \in DOMAIN ov THEN ov[k] ELSE o[k]]

\* No call of a module function was made yet.
NoCall == [fn |-> "", site |-> 0, arg |-> <<>>, out |-> 0, err |-> ""]

FgIdle == [pc |-> "idle", s |-> 0, ov |-> 1, tmp |-> 0, src |-> 0]

CbIdle ==
    [pc |-> "idle", frames |-> 0, sounds |-> <<>>, k |-> 0, s |-> 0,
     isdone |-> FALSE, ix |-> 0, left |-> 0, bl |-> <<>>, index |-> 0,
     n |-> 0, tmp |-> 0, d |-> <<>>, was |-> -1]

StreamOpen == \E t \in 1 .. Len(threads) : threads[t] = "running"

Live(s) == s \in 1 .. Len(snd)

-----------------------------------------------------------------------------
\* The worker thread.

\* A further call of _init_worker_thread() after the one the import makes.
InitWorker ==
    /\ fg.pc = "idle"
    /\ budget.ops < MaxOps
    /\ budget' = [budget EXCEPT !.ops = @ + 1]
    /\ fg' = [FgIdle EXCEPT !.pc = "iw_check"]
    /\ UNCHANGED <<snd, _soundsq, _worker_tid, threads, _workerq, _al, _dt, script, sprite, call,
                   outdata, cb, hostframes, rq, gh>>

\* _init_worker_thread: if not _worker_tid
InitWorkerCheck ==
    /\ fg.pc = "iw_check"
    /\ fg' = IF _worker_tid = 0 THEN [FgIdle EXCEPT !.pc = "iw_start"] ELSE FgIdle
    /\ gh' = IF _worker_tid = 0 THEN gh ELSE [gh EXCEPT !.refused = @ + 1]
    /\ UNCHANGED <<snd, _soundsq, _worker_tid, threads, _workerq, _al, _dt, script, sprite, call,
                   outdata, cb, hostframes, rq, budget>>

\* _thread.start_new_thread(_start_sound_stream, ())
InitWorkerStart ==
    /\ fg.pc = "iw_start"
    /\ threads' = Append(threads, "opening")
    /\ fg' = [fg EXCEPT !.pc = "iw_assign", !.tmp = Len(threads) + 1]
    /\ UNCHANGED <<snd, _soundsq, _worker_tid, _workerq, _al, _dt, script, sprite, call, outdata,
                   cb, hostframes, rq, budget, gh>>

\* _worker_tid = <the new thread's identifier>
InitWorkerAssign ==
    /\ fg.pc = "iw_assign"
    /\ _worker_tid' = fg.tmp
    /\ fg' = FgIdle
    /\ UNCHANGED <<snd, _soundsq, threads, _workerq, _al, _dt, script, sprite, call, outdata, cb,
                   hostframes, rq, budget, gh>>

\* _start_sound_stream: the with statement opens the output stream
StreamEnter(t) ==
    /\ threads[t] = "opening"
    /\ threads' = [threads EXCEPT ![t] = "running"]
    /\ UNCHANGED <<snd, _soundsq, _worker_tid, _workerq, _al, _dt, script, sprite, call, outdata,
                   fg, cb, hostframes, rq, rq, budget, gh>>

\* _start_sound_stream: _workerq.get() returns and the with statement closes
\* the stream
StreamClose(t) ==
    /\ threads[t] = "running"
    /\ _workerq > 0
    /\ cb.pc = "idle"
    /\ _workerq' = _workerq - 1
    /\ threads' = [threads EXCEPT ![t] = "closed"]
    /\ UNCHANGED <<snd, _soundsq, _worker_tid, _al, _dt, script, sprite, call, outdata, fg, cb,
                   hostframes, rq, budget, gh>>

\* _start_sound_stream: _worker_tid = None, and the thread ends
StreamExit(t) ==
    /\ threads[t] = "closed"
    /\ threads' = [threads EXCEPT ![t] = "exited"]
    /\ _worker_tid' = 0
    /\ UNCHANGED <<snd, _soundsq, _workerq, _al, _dt, script, sprite, call, outdata, fg, cb,
                   hostframes, rq, budget, gh>>

\* _init_worker_thread() called from a second thread.
ReqCall ==
    /\ rq.pc = "idle"
    /\ budget.ops < MaxOps
    /\ budget' = [budget EXCEPT !.ops = @ + 1]
    /\ rq' = [rq EXCEPT !.pc = "iw_check"]
    /\ UNCHANGED <<snd, _soundsq, _worker_tid, threads, _workerq, _al, _dt, script, sprite, call,
                   outdata, fg, cb, hostframes, gh>>

\* _init_worker_thread in the second thread: if not _worker_tid
ReqCheck ==
    /\ rq.pc = "iw_check"
    /\ rq' = [rq EXCEPT !.pc = IF _worker_tid = 0 THEN "iw_start" ELSE "idle"]
    /\ gh' = IF _worker_tid = 0 THEN gh ELSE [gh EXCEPT !.refused = @ + 1]
    /\ UNCHANGED <<snd, _soundsq, _worker_tid, threads, _workerq, _al, _dt, script, sprite, call,
                   outdata, fg, cb, hostframes, budget>>

\* _init_worker_thread in the second thread: _thread.start_new_thread(...)
ReqStart ==
    /\ rq.pc = "iw_start"
    /\ threads' = Append(threads, "opening")
    /\ rq' = [pc |-> "iw_assign", tmp |-> Len(threads) + 1]
    /\ UNCHANGED <<snd, _soundsq, _worker_tid, _workerq, _al, _dt, script, sprite, call, outdata,
                   fg, cb, hostframes, budget, gh>>

\* _init_worker_thread in the second thread: _worker_tid = <identifier>
ReqAssign ==
    /\ rq.pc = "iw_assign"
    /\ _worker_tid' = rq.tmp
    /\ rq' = [pc |-> "idle", tmp |-> 0]
    /\ UNCHANGED <<snd, _soundsq, threads, _workerq, _al, _dt, script, sprite, call, outdata, fg,
                   cb, hostframes, budget, gh>>

\* The foreground puts the shutdown signal into _workerq.
WorkerqPut ==
    /\ fg.pc = "idle"
    /\ budget.ops < MaxOps
    /\ budget' = [budget EXCEPT !.ops = @ + 1]
    /\ _workerq' = _workerq + 1
    /\ UNCHANGED <<snd, _soundsq, _worker_tid, threads, _al, _dt, script, sprite, call, outdata, fg,
                   cb, hostframes, rq, gh>>

-----------------------------------------------------------------------------
\* The foreground operations on a sound.

FgStart(s) ==
    /\ fg.pc = "idle"
    /\ Live(s)
    /\ budget.ops < MaxOps
    /\ budget' = [budget EXCEPT !.ops = @ + 1]

\* Sample.play(**kwargs): the overrides
Play(s, ov) ==
    /\ FgStart(s)
    /\ snd' = [snd EXCEPT ![s] = SetOverrides(@, Overrides[ov])]
    /\ fg' = [FgIdle EXCEPT !.pc = "play_load", !.s = s, !.ov = ov]
    /\ gh' = [gh EXCEPT !.armed[s] = FALSE, !.stopped[s] = FALSE,
                        !.sawstop = @ \ {s}, !.rel[s] = -1]
    /\ UNCHANGED <<_soundsq, _worker_tid, threads, _workerq, _al, _dt, script, sprite, call, outdata,
                   cb, hostframes, rq>>

\* Sample.play_new(**kwargs): self.copy()
PlayNew(s, ov) ==
    /\ FgStart(s)
    /\ Len(snd) < MaxSounds
    /\ snd' = Append(snd, copy(snd[s]))
    /\ fg' = [FgIdle EXCEPT !.pc = "new_set", !.s = Len(snd) + 1, !.ov = ov,
                            !.src = s]
    /\ UNCHANGED <<_soundsq, _worker_tid, threads, _workerq, _al, _dt, script, sprite, call, outdata,
                   cb, hostframes, rq, gh>>

\* Sample.play_new: play(**kwargs) on the copy, the overrides
PlayNewSet ==
    /\ fg.pc = "new_set"
    /\ snd' = [snd EXCEPT ![fg.s] = SetOverrides(@, Overrides[fg.ov])]
    /\ fg' = [fg EXCEPT !.pc = "play_load"]
    /\ UNCHANGED <<_soundsq, _worker_tid, threads, _workerq, _al, _dt, script, sprite, call, outdata,
                   cb, hostframes, rq, budget, gh>>

\* Sample.play: self.load()
PlayLoad ==
    /\ fg.pc = "play_load"
    /\ snd' = [snd EXCEPT ![fg.s] = load(@)]
    /\ fg' = [fg EXCEPT !.pc = "play_check"]
    /\ UNCHANGED <<_soundsq, _worker_tid, threads, _workerq, _al, _dt, script, sprite, call, outdata,
                   cb, hostframes, rq, budget, gh>>

\* play that enqueues without looking at the playing flag.
PlayCheckAlwaysPut ==
    /\ fg.pc = "play_check"
    /\ fg' = [fg EXCEPT !.pc = "play_put"]
    /\ UNCHANGED <<snd, _soundsq, _worker_tid, threads, _workerq, _al, _dt, script, sprite, call,
                   outdata, cb, hostframes, rq, budget, gh>>

\* Sample.play: if self.playing
PlayCheck ==
    /\ fg.pc = "play_check"
    /\ fg' = [fg EXCEPT !.pc = IF snd[fg.s].playing THEN "play_reset" ELSE "play_put"]
    /\ UNCHANGED <<snd, _soundsq, _worker_tid, threads, _workerq, _al, _dt, script, sprite, call,
                   outdata, cb, hostframes, rq, budget, gh>>

\* Sample.play: self.reset = True; return self
PlayReset ==
    /\ fg.pc = "play_reset"
    /\ snd' = [snd EXCEPT ![fg.s].reset = TRUE]
    /\ fg' = FgIdle
    /\ gh' = [gh EXCEPT !.armed[fg.s] = TRUE]
    /\ UNCHANGED <<_soundsq, _worker_tid, threads, _workerq, _al, _dt, script, sprite, call, outdata,
                   cb, hostframes, rq, budget>>

\* Sample.play: self.playing = True; _soundsq.put(self); return self
PlayPut ==
    /\ fg.pc = "play_put"
    /\ snd' = [snd EXCEPT ![fg.s].playing = TRUE]
    /\ _soundsq' = Append(_soundsq, fg.s)
    /\ fg' = FgIdle
    /\ UNCHANGED <<_worker_tid, threads, _workerq, _al, _dt, script, sprite, call, outdata, cb,
                   hostframes, rq, budget, gh>>

\* Sample.stop()
Stop(s) ==
    /\ FgStart(s)
    /\ snd' = [snd EXCEPT ![s] = stop(@)]
    /\ fg' = FgIdle
    /\ gh' = [gh EXCEPT !.stopped[s] = TRUE]
    /\ UNCHANGED <<_soundsq, _worker_tid, threads, _workerq, _al, _dt, script, sprite, call, outdata,
                   cb, hostframes, rq>>

\* The values a call of play_release may pass as release; 0 stands for None.
ReleaseArgs == {0, 882}

\* Sample.play_release(release): self.release = release when one is given,
\* then frames2t(self.index) is evaluated
PlayRelease(s, release) ==
    /\ FgStart(s)
    /\ snd' = IF release = 0 THEN snd ELSE [snd EXCEPT ![s].release = release]
    /\ fg' = [FgIdle EXCEPT !.pc = "rel_write", !.s = s,
                            !.tmp = frames2t(snd[s].index)]
    /\ UNCHANGED <<_soundsq, _worker_tid, threads, _workerq, _al, _dt, script, sprite, call, outdata,
                   cb, hostframes, rq, gh>>

\* Sample.play_release(): self.duration = ...
PlayReleaseWrite ==
    /\ fg.pc = "rel_write"
    /\ snd' = [snd EXCEPT ![fg.s].duration = fg.tmp]
    /\ fg' = FgIdle
    /\ gh' = [gh EXCEPT !.rel[fg.s] = IF snd[fg.s].playing THEN snd[fg.s].index ELSE -1]
    /\ UNCHANGED <<_soundsq, _worker_tid, threads, _workerq, _al, _dt, script, sprite, call, outdata,
                   cb, hostframes, rq, budget>>

\* The arguments of the calls of set_envelope, times in frames.
EnvelopeArgs == {[attack |-> 512], [attack |-> 0], [sustain |-> <<1, 2>>]}

\* Sample.set_envelope(**kw) with one argument
SetEnvelope(s, kw) ==
    /\ FgStart(s)
    /\ snd' = [snd EXCEPT ![s] = set_envelope(@, kw)]
    /\ UNCHANGED <<_soundsq, _worker_tid, threads, _workerq, _al, _dt, script, sprite, call,
                   outdata, fg, cb, hostframes, rq, gh>>

\* Sample.get_adsr() called by the program: the tuple is built and compared,
\* and self.adsr0 = adsr when it differs; else the call returns self.adsr1.
GetAdsr(s) ==
    /\ FgStart(s)
    /\ IF snd[s].adsr0 # AdsrKey(snd[s])
       THEN /\ snd' = [snd EXCEPT ![s].adsr0 = AdsrKey(snd[s])]
            /\ fg' = [FgIdle EXCEPT !.pc = "adsr_store", !.s = s]
            /\ call' = [NoCall EXCEPT !.site = s, !.arg = AdsrKey(snd[s])]
       ELSE /\ snd' = snd
            /\ fg' = FgIdle
            /\ call' = [NoCall EXCEPT !.fn = "get_adsr", !.site = s,
                                       !.arg = AdsrKey(snd[s]),
                                       !.out = snd[s].adsr1]
    /\ UNCHANGED <<_soundsq, _worker_tid, threads, _workerq, _al, _dt, script, sprite,
                   outdata, cb, hostframes, rq, gh>>

\* Sample.get_adsr(): self.adsr1 = the curve of the tuple built; return
GetAdsrStore ==
    /\ fg.pc = "adsr_store"
    /\ snd' = [snd EXCEPT ![fg.s].adsr1 = AdsrShape(call.arg)]
    /\ fg' = FgIdle
    /\ call' = [call EXCEPT !.fn = "get_adsr", !.out = AdsrShape(call.arg)]
    /\ UNCHANGED <<_soundsq, _worker_tid, threads, _workerq, _al, _dt, script, sprite,
                   outdata, cb, hostframes, rq, budget, gh>>

-----------------------------------------------------------------------------
\* The oscilloscope.

\* The history has to hold this many frames for a wave to be drawn.
ScopeThreshold == 1000

\* len(np.concatenate(_al).mean(-1)[-FPS:])
HistoryFrames == Min(SumSeq(_al), FPS)

\* get_oscilloscope_as_array that tests the history against the length asked
\* of the slice drawn.
ScopeReturnShort(size, n) ==
    IF n < 100
    THEN [early |-> TRUE, shape |-> <<size[2], size[1], 4>>, zeros |-> TRUE,
          ts |-> 0, te |-> 0, seen |-> n]
    ELSE [early |-> FALSE, shape |-> <<size[2], size[1], 4>>, seen |-> n]

\* get_oscilloscope_as_array(fps, size=(w0, h0)) on a history of n frames: the
\* return np.zeros((h0, w0, 4)), 0, 0, or the call goes on to draw the wave;
\* seen is the number of history frames the call had before it.
ScopeReturn(size, n) ==
    IF n < ScopeThreshold
    THEN [early |-> TRUE, shape |-> <<size[2], size[1], 4>>, zeros |-> TRUE,
          ts |-> 0, te |-> 0, seen |-> n]
    ELSE [early |-> FALSE, shape |-> <<size[2], size[1], 4>>, seen |-> n]

\* The sizes (width, height) asked for.
ScopeSizes == {<<512, 256>>, <<4, 2>>}

\* get_oscilloscope_as_array: get_output_as_array finds no history and
\* returns None, or goes on
ScopeCall(size) ==
    /\ fg.pc = "idle"
    /\ budget.ops < MaxOps
    /\ budget' = [budget EXCEPT !.ops = @ + 1]
    /\ IF _dt = <<>> \/ _al = <<>>
       THEN /\ fg' = FgIdle
            /\ call' = [NoCall EXCEPT !.fn = "get_oscilloscope_as_array",
                                       !.arg = size, !.out = ScopeReturn(size, 0)]
       ELSE /\ fg' = [FgIdle EXCEPT !.pc = "scope_read"]
            /\ call' = [NoCall EXCEPT !.arg = size]
    /\ UNCHANGED <<snd, _soundsq, _worker_tid, threads, _workerq, _al, _dt, script, sprite,
                   outdata, cb, hostframes, rq, gh>>

\* get_output_as_array: the chunks are concatenated; get_oscilloscope_as_array:
\* if not oa or len(oa[0]) < 1000
ScopeRead ==
    /\ fg.pc = "scope_read"
    /\ fg' = FgIdle
    /\ call' = [call EXCEPT !.fn = "get_oscilloscope_as_array",
                            !.out = ScopeReturn(call.arg, HistoryFrames)]
    /\ UNCHANGED <<snd, _soundsq, _worker_tid, threads, _workerq, _al, _dt, script, sprite,
                   outdata, cb, hostframes, rq, budget, gh>>

-----------------------------------------------------------------------------
\* The scripting helpers use, play and sleep.

\* hash(callerframe()): the call sites of a script.
Sites == 1 .. MaxSites

\* d[k] = v on a dict held as a function.
DictSet(d, k, v) == [x \in DOMAIN d \cup {k} |-> IF x = k THEN v ELSE d[x]]

\* A script call may begin: the foreground is between calls.
ScriptStart ==
    /\ fg.pc = "idle"
    /\ script.n < MaxCalls

\* An instrument bound at every call site.
UseGlobal(cf, s, ov) ==
    /\ ScriptStart
    /\ Live(s)
    /\ ov = 1
    /\ script' = [script EXCEPT !.syd = [c \in Sites |-> s], !.n = @ + 1]
    /\ call' = [NoCall EXCEPT !.fn = "use", !.site = cf, !.arg = <<s, ov>>]
    /\ UNCHANGED <<snd, _soundsq, _worker_tid, threads, _workerq, _al, _dt,
                   outdata, fg, cb, hostframes, rq, sprite, budget, gh>>

\* use(synth, **kwargs): synth = synth.copy(**kwargs) when there are kwargs;
\* syd[cf] = synth
Use(cf, s, ov) ==
    /\ ScriptStart
    /\ Live(s)
    /\ IF Overrides[ov] = Overrides[1]
       THEN /\ snd' = snd
            /\ script' = [script EXCEPT !.syd = DictSet(@, cf, s), !.n = @ + 1]
       ELSE /\ Len(snd) < MaxSounds
            /\ snd' = Append(snd, SetOverrides(copy(snd[s]), Overrides[ov]))
            /\ script' = [script EXCEPT !.syd = DictSet(@, cf, Len(snd) + 1),
                                        !.n = @ + 1]
    /\ call' = [NoCall EXCEPT !.fn = "use", !.site = cf, !.arg = <<s, ov>>]
    /\ UNCHANGED <<_soundsq, _worker_tid, threads, _workerq, _al, _dt,
                   outdata, fg, cb, hostframes, rq, sprite, budget, gh>>

\* The notes a script plays.
Notes == {60}

\* The object with self.note = note.
SetNote(o, note) ==
    [k \in DOMAIN o \cup {"note"} |-> IF k = "note" THEN note ELSE o[k]]

\* play(note, **kwargs): sy = syd[cf], a KeyError at a site with no
\* instrument; sy.play_new(note, **kwargs): the copy, and in play on the copy
\* self.note = note
ScriptPlay(cf, note, ov) ==
    /\ ScriptStart
    /\ script' = [script EXCEPT !.n = @ + 1]
    /\ IF cf \in DOMAIN script.syd
       THEN /\ Len(snd) < MaxSounds
            /\ snd' = Append(snd, SetNote(copy(snd[script.syd[cf]]), note))
            /\ fg' = [FgIdle EXCEPT !.pc = "new_set", !.s = Len(snd) + 1,
                                    !.ov = ov, !.src = script.syd[cf]]
            /\ call' = [NoCall EXCEPT !.fn = "play", !.site = cf,
                                       !.arg = <<note, ov>>, !.out = Len(snd) + 1]
       ELSE /\ call' = [NoCall EXCEPT !.fn = "play", !.site = cf,
                                       !.arg = <<note, ov>>, !.err = "KeyError"]
            /\ UNCHANGED <<snd, fg>>
    /\ UNCHANGED <<_soundsq, _worker_tid, threads, _workerq, _al, _dt,
                   outdata, cb, hostframes, rq, sprite, budget, gh>>

\* The values of dt a script passes to sleep.
SleepArgs == {-1, 0, 1, 2}

\* A sleep that counts from the present, whatever the previous target was.
SleepFromNow(cf, dt) ==
    /\ ScriptStart
    /\ script.now + Max(0, dt) <= MaxTime
    /\ script' = [script EXCEPT !.dtd = DictSet(@, cf, script.now + Max(0, dt)),
                                !.n = @ + 1]
    /\ call' = [NoCall EXCEPT !.fn = "sleep", !.site = cf,
                               !.arg = <<dt, script.now>>, !.out = Max(0, dt)]
    /\ UNCHANGED <<snd, _soundsq, _worker_tid, threads, _workerq, _al, _dt,
                   outdata, fg, cb, hostframes, rq, sprite, budget, gh>>

\* sleep(dt): dt = max(0, dt); tt = time.time(); t0 = dtd.get(cf) or tt;
\* t1 = dtd[cf] = max(t0 + dt, tt); return asyncio.sleep(t1 - tt)
Sleep(cf, dt) ==
    /\ ScriptStart
    /\ LET dt0 == Max(0, dt)
           tt  == script.now
           t0  == IF cf \in DOMAIN script.dtd /\ script.dtd[cf] # 0
                  THEN script.dtd[cf] ELSE tt
           t1  == Max(t0 + dt0, tt)
       IN  /\ t1 <= MaxTime
           /\ script' = [script EXCEPT !.dtd = DictSet(@, cf, t1), !.n = @ + 1]
           /\ call' = [NoCall EXCEPT !.fn = "sleep", !.site = cf,
                                      !.arg = <<dt, tt>>, !.out = t1 - tt]
    /\ UNCHANGED <<snd, _soundsq, _worker_tid, threads, _workerq, _al, _dt,
                   outdata, fg, cb, hostframes, rq, sprite, budget, gh>>

\* time.time() between two calls: the clock has moved on.
Tick ==
    /\ script.now < MaxTime
    /\ script' = [script EXCEPT !.now = @ + 1]
    /\ UNCHANGED <<snd, _soundsq, _worker_tid, threads, _workerq, _al, _dt,
                   outdata, fg, cb, hostframes, rq, sprite, call, budget, gh>>

-----------------------------------------------------------------------------
\* Notes.

\* str.isdigit and int on one character.
DigitValue ==
    [c \in {"0", "1", "2", "3", "4", "5", "6", "7", "8", "9"} |->
        CASE c = "0" -> 0 [] c = "1" -> 1 [] c = "2" -> 2 [] c = "3" -> 3
          [] c = "4" -> 4 [] c = "5" -> 5 [] c = "6" -> 6 [] c = "7" -> 7
          [] c = "8" -> 8 [] OTHER -> 9]

\* The chromatic table, a name being the sequence of its characters.
_notes ==
    (<<"C">> :> 1) @@ (<<"C", "s">> :> 2) @@ (<<"D", "b">> :> 2) @@
    (<<"D">> :> 3) @@ (<<"D", "s">> :> 4) @@ (<<"E", "b">> :> 4) @@
    (<<"E">> :> 5) @@ (<<"F">> :> 6) @@ (<<"F", "s">> :> 7) @@
    (<<"G", "b">> :> 7) @@ (<<"G">> :> 8) @@ (<<"G", "s">> :> 9) @@
    (<<"A", "b">> :> 9) @@ (<<"A">> :> 10) @@ (<<"A", "s">> :> 11) @@
    (<<"B", "b">> :> 11) @@ (<<"B">> :> 12)

\* str.replace(a, b) on single characters.
Replace(note, a, b) == [i \in 1 .. Len(note) |-> IF note[i] = a THEN b ELSE note[i]]

\* get_note_key with octave 0 for a name without a digit.
get_note_keyNoDefault(note) ==
    IF note = <<>> THEN [NoCall EXCEPT !.err = "IndexError"]
    ELSE LET isd    == note[Len(note)] \in DOMAIN DigitValue
             octave == IF isd THEN DigitValue[note[Len(note)]] ELSE 0
             n1     == IF isd THEN SubSeq(note, 1, Len(note) - 1) ELSE note
             n2     == Replace(n1, "#", "s")
         IN  IF n2 \in DOMAIN _notes
             THEN [NoCall EXCEPT !.out = _notes[n2] + octave * 12 + 11]
             ELSE [NoCall EXCEPT !.err = "KeyError"]

\* get_note_key(note): the key, or the error raised (note[-1] of the empty
\* string, _notes[note] of a name that is not a key of the table).
get_note_key(note) ==
    IF note = <<>> THEN [NoCall EXCEPT !.err = "IndexError"]
    ELSE LET isd    == note[Len(note)] \in DOMAIN DigitValue
             octave == IF isd THEN DigitValue[note[Len(note)]] ELSE 4
             n1     == IF isd THEN SubSeq(note, 1, Len(note) - 1) ELSE note
             n2     == Replace(n1, "#", "s")
         IN  IF n2 \in DOMAIN _notes
             THEN [NoCall EXCEPT !.out = _notes[n2] + octave * 12 + 11]
             ELSE [NoCall EXCEPT !.err = "KeyError"]

-----------------------------------------------------------------------------
\* The waveform generators. A wave is the sequence of its samples.

\* numpy.linspace(a, b, n)
LinspaceSeq(a, b, n) == [i \in 1 .. n |-> Linspace[a, b, n, i - 1]]

\* np.concatenate([a0] * cycles)
RECURSIVE Cycles(_, _)
Cycles(a0, cycles) == IF cycles = 0 THEN <<>> ELSE a0 \o Cycles(a0, cycles - 1)

\* sin(pi u) for u in [0, 1], by Bhaskara's rational approximation
\* 16 u (1 - u) / (5 - 4 u (1 - u)); np.sin is not exact either.
HalfSine(u) ==
    LET p == RMul[u, RAdd[ROne, RNeg(u)]]
    IN  RDiv(RMul[<<16, 1>>, p], RAdd[<<5, 1>>, RNeg(RMul[<<4, 1>>, p])])

\* sin(2 pi x) for x in [0, 1]
Sine(x) ==
    LET u == RMul[<<2, 1>>, x]
    IN  IF RLess(ROne, u) THEN RNeg(HalfSine(RAdd[u, <<-1, 1>>])) ELSE HalfSine(u)

_get_sine_wave(cycles, frames) ==
    LET l  == LinspaceSeq(RZero, ROne, frames)
        a0 == [i \in 1 .. Len(l) |-> Sine(l[i])]
    IN  Cycles(a0, cycles)

_get_saw_wave(cycles, frames) ==
    Cycles(LinspaceSeq(<<-1, 1>>, ROne, frames), cycles)

\* _get_triangle_wave with the odd sample in the rising ramp.
_get_triangle_waveRisingLonger(cycles, frames) ==
    LET a0 == LinspaceSeq(<<-1, 1>>, ROne, frames - frames \div 2)
        a1 == LinspaceSeq(ROne, <<-1, 1>>, frames \div 2)
    IN  Cycles(a0 \o a1, cycles)

_get_triangle_wave(cycles, frames) ==
    LET a0 == LinspaceSeq(<<-1, 1>>, ROne, frames \div 2)
        a1 == LinspaceSeq(ROne, <<-1, 1>>, frames - frames \div 2)
    IN  Cycles(a0 \o a1, cycles)

\* _get_pulse_wave with the second half of the cycle negated.
_get_pulse_waveUpperHalf(cycles, frames) ==
    LET a0 == [i \in 1 .. frames |-> IF i > frames \div 2 THEN <<-1, 1>> ELSE ROne]
    IN  Cycles(a0, cycles)

_get_pulse_wave(cycles, frames) ==
    LET a0 == [i \in 1 .. frames |-> IF i <= frames \div 2 THEN <<-1, 1>> ELSE ROne]
    IN  Cycles(a0, cycles)

\* The generator of each shape.
_shape_foo(shape, cycles, frames) ==
    CASE shape = "sine"  -> _get_sine_wave(cycles, frames)
      [] shape = "saw"   -> _get_saw_wave(cycles, frames)
      [] shape = "tri"   -> _get_triangle_wave(cycles, frames)
      [] shape = "pulse" -> _get_pulse_wave(cycles, frames)

-----------------------------------------------------------------------------
\* The cycle search.

MaxCycleCount == 32

\* The score of one more cycle has to be under this for the search to stop.
GoodEnough == <<3, 1000>>

\* 1 / 0.06
SeamScale == <<50, 3>>

\* fr / fi / 0.06 for i cycles of f0 frames each.
CycleScore(f0, i) ==
    LET fi == RMul[f0, <<i, 1>>]
        fr == RFrac(fi)
    IN  RMul[RDiv(RMin(fr, RAdd[ROne, RNeg(fr)]), fi), SeamScale]

\* The loop of get_freq_cycles from candidate i on: the pair (mr, mc) it ends
\* with.
RECURSIVE CycleSearch(_, _, _, _)
CycleSearch(f0, i, mr, mc) ==
    IF i > MaxCycleCount THEN <<mr, mc>>
    ELSE LET sc == CycleScore(f0, i)
         IN  IF RLess(sc, mr)
             THEN IF RLess(sc, GoodEnough) THEN <<sc, i>>
                  ELSE CycleSearch(f0, i + 1, sc, i)
             ELSE CycleSearch(f0, i + 1, mr, mc)

\* round(mr, 4), in ten-thousandths.
Round4(mr) == RRound(RMul[mr, <<10000, 1>>])

\* get_freq_cycles with the frames of one cycle rounded before they are
\* multiplied.
get_freq_cyclesRoundsFirst(f) ==
    LET f0 == Rat[FPS, f]
        r  == CycleSearch(f0, 1, <<1000, 1>>, 1)
    IN  <<r[2], RRound(f0) * r[2], Round4(r[1])>>

\* get_freq_cycles(f): the cycles, the frames and the score in
\* ten-thousandths.
get_freq_cycles(f) ==
    LET f0 == Rat[FPS, f]
        r  == CycleSearch(f0, 1, <<1000, 1>>, 1)
    IN  <<r[2], RRound(RMul[f0, <<r[2], 1>>]), Round4(r[1])>>

-----------------------------------------------------------------------------
\* Calls of the module's functions.

\* A call of a function that touches no module state, made on its own.
PureFrame ==
    /\ call = NoCall
    /\ UNCHANGED <<snd, _soundsq, _worker_tid, threads, _workerq, _al, _dt,
                   outdata, fg, cb, hostframes, rq, script, sprite, budget, gh>>

\* t2frames(t), t a number of quarter frames
CallT2frames(q) ==
    /\ PureFrame
    /\ call' = [NoCall EXCEPT !.fn = "t2frames", !.arg = <<q>>, !.out = t2frames(q)]

\* The characters note names are made of here.
NoteChars == {"A", "C", "D", "b", "s", "#", "4", "5", "0", "H"}

\* The note names passed: every string of at most MaxNoteLen characters.
NoteNames == UNION {[1 .. n -> NoteChars] : n \in 0 .. MaxNoteLen}

\* get_note_key(note)
CallNoteKey(note) ==
    /\ PureFrame
    /\ call' = [get_note_key(note) EXCEPT !.fn = "get_note_key", !.arg = <<note>>]

\* range(8), the octaves the attributes of note are generated for.
Octaves == 8

\* str(o) of one decimal digit.
str(o) == CHOOSE c \in DOMAIN DigitValue : DigitValue[c] = o

\* str.rstrip(c): every trailing c is removed.
RECURSIVE rstrip(_, _)
rstrip(s, c) ==
    IF s # <<>> /\ s[Len(s)] = c THEN rstrip(SubSeq(s, 1, Len(s) - 1), c) ELSE s

\* The attribute set on note for the table name k and the octave o:
\* ko = (k + str(o)).rstrip('0')
ko(k, o) == rstrip(Append(k, str(o)), "0")

\* get_note_key(ko) of the attribute generated for (k, o)
CallNoteAttribute(k, o) ==
    /\ PureFrame
    /\ call' = [get_note_key(ko(k, o)) EXCEPT !.fn = "note", !.arg = <<k, o, ko(k, o)>>]

\* The frequencies passed to the cycle search.
FreqArgs == {440, 220, 100, 55, 441, 1000, 262, 31}

\* get_freq_cycles(f)
CallFreqCycles(f) ==
    /\ PureFrame
    /\ call' = [NoCall EXCEPT !.fn = "get_freq_cycles", !.arg = <<f>>,
                               !.out = get_freq_cycles(f)]

Shapes == {"sine", "saw", "tri", "pulse"}

\* The frames of one cycle that are passed: the small ones and the default.
WaveFrames == (1 .. MaxWaveFrames) \cup {256}

\* A call of the generator of a shape.
CallWave(shape, cycles, frames) ==
    /\ PureFrame
    /\ call' = [NoCall EXCEPT !.fn = shape, !.arg = <<cycles, frames>>,
                               !.out = _shape_foo(shape, cycles, frames)]

\* data.shape[-1] of an array with rows
Width(data) == Len(data[1])

\* load_sound(path, channels)
CallLoadSound(path, channels) ==
    /\ PureFrame
    /\ call' = [NoCall EXCEPT !.fn = "load_sound", !.arg = <<path, channels>>,
                               !.out = load_sound(path, channels)]

\* Sample(path).load(channels): the channels field it leaves.
CallLoad(path, channels) ==
    /\ PureFrame
    /\ call' = [NoCall EXCEPT !.fn = "load", !.arg = <<path, channels>>,
                               !.out = Width(load_sound(path, channels))]

\* The durations, in frames, of the sounds whose envelope is asked for.
Durations == {0, 441, 882, 979, 1024, 2048}

\* The envelopes set, times in frames.
Envelopes ==
    [attack : {0, 443, 512}, decay : {0, 512, 536},
     sustain : {RZero, <<1, 2>>, ROne}, release : {0, 600}]

\* Sample(path, duration=dn), set_envelope(**kw) and get_adsr(): the key and
\* the curve the sound holds.
CallGetAdsr(dn, kw) ==
    /\ PureFrame
    /\ LET o == get_adsr(set_envelope(NewSample(3, ROne, RZero, FALSE, dn), kw))
       IN  call' = [NoCall EXCEPT !.fn = "get_adsr", !.arg = o.adsr0,
                                   !.out = o.adsr1]

-----------------------------------------------------------------------------
\* The audio callback.

\* A piece of the list bl that _consume concatenates: n rows of buffer b from
\* row at on, or n rows of zeros when b is 0.
Seg(b, at, n) == [b |-> b, at |-> at, n |-> n]

RECURSIVE SegRows(_)
SegRows(bl) == IF bl = <<>> THEN 0 ELSE bl[1].n + SegRows(Tail(bl))

\* Channel c of row i (from 1) of np.concatenate(bl, 0).
RECURSIVE SegAt(_, _, _)
SegAt(bl, i, c) ==
    IF i <= bl[1].n
    THEN IF bl[1].b = 0 THEN RZero
         ELSE <<Loaded[bl[1].b][bl[1].at + i][c], 1>>
    ELSE SegAt(Tail(bl), i - bl[1].n, c)

\* len(adsr1[ix: ix + n]) for the curve of shape h
AdsrSliceLen(h, ix, n) == Max(0, Min(AdsrLen(h), ix + n) - Min(AdsrLen(h), ix))

\* b0 * envelope raises unless the slice has as many rows as b0 or one row;
\* so does the slice of a curve that is still None.
ShapeError(o, ix, n) ==
    /\ o.duration # 0
    /\ \/ get_adsr(o).adsr1 = <<>>
       \/ AdsrSliceLen(get_adsr(o).adsr1, ix, n) \notin {n, 1}

\* What _consume returns for sound s: the rows bl scaled by the gains and,
\* when the sound has a duration, by the envelope rows from ix on.
Shaped(s, o, bl, ix) ==
    [s |-> s, bl |-> bl, gain |-> _ampan(o.amp, o.pan),
     env |-> o.duration # 0,
     adsr |-> IF o.duration = 0 THEN <<>> ELSE get_adsr(o).adsr1,
     ix |-> ix,
     m |-> IF o.duration = 0 THEN 0
           ELSE AdsrSliceLen(get_adsr(o).adsr1, ix, SegRows(bl))]

\* Channel c of row i (from 1) of such an array.
ShapedAt(cn, i, c) ==
    LET v == RMul[SegAt(cn.bl, i, c), cn.gain[c]]
    IN  IF ~cn.env THEN v
        ELSE RMul[v, AdsrRow(cn.adsr, IF cn.m = 1 THEN cn.ix ELSE cn.ix + i - 1)]

RECURSIVE SumAt(_, _, _)
SumAt(d, i, c) ==
    IF d = <<>> THEN RZero ELSE RAdd[ShapedAt(d[1], i, c), SumAt(Tail(d), i, c)]

\* A mix that sums without clipping.
_mix_soundsNoClip(d, frames) ==
    [i \in 1 .. frames |-> [c \in 1 .. 2 |-> SumAt(d, i, c)]]

\* _mix_sounds: np.sum(d, 0).clip(-1, 1)
_mix_sounds(d, frames) ==
    [i \in 1 .. frames |-> [c \in 1 .. 2 |-> RClip(SumAt(d, i, c), RNeg(ROne), ROne)]]

\* np.zeros_like(outdata)
Zeros(frames) == [i \in 1 .. frames |-> [c \in 1 .. 2 |-> RZero]]

\* The samples in the output buffer.
Samples(out) ==
    IF out.d = <<>> THEN Zeros(out.frames) ELSE _mix_sounds(out.d, out.frames)

CbFrame == UNCHANGED <<_worker_tid, threads, _workerq, fg, hostframes, rq, budget>>

\* The driver calls _stream_callback(outdata, frames, ...).
CbEnter(frames) ==
    /\ StreamOpen
    /\ cb.pc = "idle"
    /\ frames \in hostframes
    /\ cb' = [CbIdle EXCEPT !.pc = "get", !.frames = frames]
    /\ gh' = [gh EXCEPT !.sawstop = {s \in 1 .. Len(snd) : gh.stopped[s]}]
    /\ UNCHANGED <<snd, _soundsq, _worker_tid, threads, _workerq, _al, _dt, script, sprite, call,
                   outdata, fg, hostframes, rq>>

\* A callback, while the model's callback budget lasts.
CbBegin(frames) ==
    /\ budget.callbacks < MaxCallbacks
    /\ budget' = [budget EXCEPT !.callbacks = @ + 1]
    /\ CbEnter(frames)

\* A callback, in the specifications where callbacks never stop coming.
CbBeginFree(frames) ==
    /\ UNCHANGED budget
    /\ CbEnter(frames)

\* The entry of _soundsq that is the string 'QUIT'.
QuitSignal == 0

\* 'QUIT' is put into the queue of playing sounds from outside the module.
QueueQuit ==
    /\ fg.pc = "idle"
    /\ budget.ops < MaxOps
    /\ budget' = [budget EXCEPT !.ops = @ + 1]
    /\ _soundsq' = Append(_soundsq, QuitSignal)
    /\ UNCHANGED <<snd, _worker_tid, threads, _workerq, _al, _dt, script, sprite, call, outdata,
                   fg, cb, hostframes, rq, gh>>

\* _get_sounds: sound = _soundsq.get(); if sound == 'QUIT': return, and
\* _stream_callback zeroes the buffer as for an empty list
CbGet ==
    /\ cb.pc = "get"
    /\ _soundsq # <<>>
    /\ cb' = IF Head(_soundsq) = QuitSignal
             THEN [cb EXCEPT !.pc = "hist", !.sounds = <<>>, !.s = 0]
             ELSE [cb EXCEPT !.pc = "get_done", !.s = Head(_soundsq)]
    /\ outdata' = IF Head(_soundsq) = QuitSignal
                  THEN [frames |-> cb.frames, d |-> <<>>]
                  ELSE outdata
    /\ _soundsq' = Tail(_soundsq)
    /\ UNCHANGED <<snd, _al, _dt, script, sprite, call, gh>>
    /\ CbFrame

\* _get_sounds: if not sound.done
CbGetDone ==
    /\ cb.pc = "get_done"
    /\ cb' = [cb EXCEPT !.pc = "get_app", !.isdone = done(snd[cb.s])]
    /\ snd' = [snd EXCEPT ![cb.s] = doneRead(@)]
    /\ UNCHANGED <<_soundsq, _al, _dt, script, sprite, call, outdata, gh>>
    /\ CbFrame

\* _get_sounds: sounds.append(sound), or sound.playing = False
CbGetApply ==
    /\ cb.pc = "get_app"
    /\ cb' = [cb EXCEPT !.pc = "get", !.s = 0, !.isdone = FALSE,
                        !.sounds = IF cb.isdone THEN @ ELSE Append(@, cb.s)]
    /\ snd' = IF cb.isdone THEN [snd EXCEPT ![cb.s].playing = FALSE] ELSE snd
    /\ UNCHANGED <<_soundsq, _al, _dt, script, sprite, call, outdata, gh>>
    /\ CbFrame

\* _get_sounds returns; _stream_callback: if not sounds, the buffer is zeroed
CbGetEnd ==
    /\ cb.pc = "get"
    /\ _soundsq = <<>>
    /\ cb' = [cb EXCEPT !.pc = IF cb.sounds = <<>> THEN "hist" ELSE "consume",
                        !.k = 1]
    /\ outdata' = IF cb.sounds = <<>> THEN [frames |-> cb.frames, d |-> <<>>]
                  ELSE outdata
    /\ UNCHANGED <<snd, _soundsq, _al, _dt, script, sprite, call, gh>>
    /\ CbFrame

\* _mix_sounds: s._consume(frames) for the next sound; ix = self.index
CbConsume ==
    /\ cb.pc = "consume"
    /\ cb.k <= Len(cb.sounds)
    /\ cb' = [cb EXCEPT !.pc = "loop", !.s = cb.sounds[cb.k],
                        !.ix = snd[cb.sounds[cb.k]].index,
                        !.left = cb.frames, !.bl = <<>>]
    /\ UNCHANGED <<snd, _soundsq, _al, _dt, script, sprite, call, outdata, gh>>
    /\ CbFrame

\* _consume: while frames > 0: if self.done: bl.append(np.zeros(...))
\* else the call of _consume0 begins
CbLoop ==
    /\ cb.pc = "loop"
    /\ snd' = IF cb.left > 0 THEN [snd EXCEPT ![cb.s] = doneRead(@)] ELSE snd
    /\ cb' = IF cb.left = 0 THEN [cb EXCEPT !.pc = "shape"]
             ELSE IF done(snd[cb.s])
                  THEN [cb EXCEPT !.bl = Append(@, Seg(0, 0, cb.left)), !.left = 0]
                  ELSE [cb EXCEPT !.pc = "c0_check"]
    /\ UNCHANGED <<_soundsq, _al, _dt, script, sprite, call, outdata, gh>>
    /\ CbFrame

\* _consume0: if self.reset
CbC0Check ==
    /\ cb.pc = "c0_check"
    /\ cb' = [cb EXCEPT !.pc = IF snd[cb.s].reset THEN "c0_reset" ELSE "c0_read",
                        !.was = -1]
    /\ UNCHANGED <<snd, _soundsq, _al, _dt, script, sprite, call, outdata, gh>>
    /\ CbFrame

\* _consume0: self.reset = False
CbC0Reset ==
    /\ cb.pc = "c0_reset"
    /\ snd' = [snd EXCEPT ![cb.s].reset = FALSE]
    /\ cb' = [cb EXCEPT !.pc = "c0_zero"]
    /\ UNCHANGED <<_soundsq, _al, _dt, script, sprite, call, outdata, gh>>
    /\ CbFrame

\* _consume0: self.index = 0
CbC0Zero ==
    /\ cb.pc = "c0_zero"
    /\ snd' = [snd EXCEPT ![cb.s].index = 0]
    /\ cb' = [cb EXCEPT !.pc = "c0_read", !.was = snd[cb.s].index]
    /\ UNCHANGED <<_soundsq, _al, _dt, script, sprite, call, outdata, gh>>
    /\ CbFrame

\* _consume0: index = self.index % len(self.buffer); data0 = buffer[index:...]
CbC0Read ==
    /\ cb.pc = "c0_read"
    /\ LET L     == BufLen(snd[cb.s].buffer)
           index == snd[cb.s].index % L
           n     == Min(cb.left, L - index)
       IN  cb' = [cb EXCEPT !.pc = "c0_add", !.index = index, !.n = n,
                            !.bl = Append(@, Seg(snd[cb.s].buffer, index, n))]
    /\ gh' = [gh EXCEPT !.armed[cb.s] = FALSE]
    /\ UNCHANGED <<snd, _soundsq, _al, _dt, script, sprite, call, outdata>>
    /\ CbFrame

\* _consume0: self.index += len(data0), the read of self.index
CbC0AddRead ==
    /\ cb.pc = "c0_add"
    /\ cb' = [cb EXCEPT !.pc = "c0_store", !.tmp = snd[cb.s].index + cb.n]
    /\ UNCHANGED <<snd, _soundsq, _al, _dt, script, sprite, call, outdata, gh>>
    /\ CbFrame

\* A store that leaves the index where it was.
CbC0AddStoreNoAdvance ==
    /\ cb.pc = "c0_store"
    /\ cb' = [cb EXCEPT !.pc = "loop", !.left = cb.left - cb.n]
    /\ UNCHANGED <<snd, _soundsq, _al, _dt, script, sprite, call, outdata, gh>>
    /\ CbFrame

\* _consume0: self.index += len(data0), the store; _consume: frames -= len(bl[-1])
CbC0AddStore ==
    /\ cb.pc = "c0_store"
    /\ snd' = [snd EXCEPT ![cb.s].index = cb.tmp]
    /\ cb' = [cb EXCEPT !.pc = "loop", !.left = cb.left - cb.n]
    /\ UNCHANGED <<_soundsq, _al, _dt, script, sprite, call, outdata, gh>>
    /\ CbFrame

\* _consume: b0 = np.concatenate(bl, 0) * _ampan(...), then the envelope;
\* a shape mismatch raises out of the callback and the stream stops calling
CbShape ==
    /\ cb.pc = "shape"
    /\ snd' = IF snd[cb.s].duration = 0 THEN snd
              ELSE [snd EXCEPT ![cb.s] = get_adsr(@)]
    /\ cb' = IF ShapeError(snd[cb.s], cb.ix, SegRows(cb.bl))
             THEN [cb EXCEPT !.pc = "raised"]
             ELSE [cb EXCEPT !.pc = IF cb.k = Len(cb.sounds) THEN "sum" ELSE "consume",
                             !.k = cb.k + 1,
                             !.d = Append(@, Shaped(cb.s, snd[cb.s], cb.bl, cb.ix))]
    /\ UNCHANGED <<_soundsq, _al, _dt, script, sprite, call, outdata, gh>>
    /\ CbFrame

\* _mix_sounds returns np.sum(d, 0).clip(-1, 1); outdata[:] = a0
CbSum ==
    /\ cb.pc = "sum"
    /\ outdata' = [frames |-> cb.frames, d |-> cb.d]
    /\ cb' = [cb EXCEPT !.pc = "put", !.k = 1, !.s = 0]
    /\ UNCHANGED <<snd, _soundsq, _al, _dt, script, sprite, call, gh>>
    /\ CbFrame

\* _put_sounds: if not sound.done, for the next sound
CbPutDone ==
    /\ cb.pc = "put"
    /\ cb.k <= Len(cb.sounds)
    /\ cb' = [cb EXCEPT !.pc = "put_app", !.s = cb.sounds[cb.k],
                        !.isdone = done(snd[cb.sounds[cb.k]])]
    /\ snd' = [snd EXCEPT ![cb.sounds[cb.k]] = doneRead(@)]
    /\ UNCHANGED <<_soundsq, _al, _dt, script, sprite, call, outdata, gh>>
    /\ CbFrame

\* _put_sounds: _soundsq.put(sound), or sound.playing = False
CbPutApply ==
    /\ cb.pc = "put_app"
    /\ _soundsq' = IF cb.isdone THEN _soundsq ELSE Append(_soundsq, cb.s)
    /\ snd' = IF cb.isdone THEN [snd EXCEPT ![cb.s].playing = FALSE] ELSE snd
    /\ cb' = [cb EXCEPT !.pc = IF cb.k = Len(cb.sounds) THEN "hist" ELSE "put",
                        !.k = cb.k + 1, !.s = 0, !.isdone = FALSE]
    /\ UNCHANGED <<_al, _dt, script, sprite, call, outdata, gh>>
    /\ CbFrame

\* _stream_callback: the oscilloscope history, and the callback returns
CbHist ==
    /\ cb.pc = "hist"
    /\ LET full == Len(_al) * cb.frames > FPS
       IN  /\ _al' = Append(IF full THEN Tail(_al) ELSE _al, cb.frames)
           /\ _dt' = Append(IF full THEN Tail(_dt) ELSE _dt, cb.frames)
    /\ cb' = CbIdle
    /\ gh' = [gh EXCEPT !.nseen = @ \cup {cb.frames}]
    /\ UNCHANGED <<snd, _soundsq, outdata, script, sprite, call>>
    /\ CbFrame

-----------------------------------------------------------------------------
\* Sprite. Coordinates, sizes and factors are exact rationals.

\* The textures load_texture makes of the images used: native width and height
\* in pixels.
Textures ==
    <<[width |-> 100, height |-> 100], [width |-> 200, height |-> 100],
      [width |-> 50, height |-> 80], [width |-> 3, height |-> 2],
      [width |-> 100, height |-> 100]>>

\* glm.vec3(self.texture.width, self.texture.height, 1), x and y
TextureSize(sp) == << <<Textures[sp.img].width, 1>>, <<Textures[sp.img].height, 1>> >>

\* v * k for a vector v
VScale(v, k) == [i \in DOMAIN v |-> RMul[v[i], k]]

\* Sprite.scale
scale(sp) == RDiv(sp.scale0[1], TextureSize(sp)[1])

\* Sprite.width
width(sp) == sp.scale0[1]

\* Sprite.height
height(sp) == sp.scale0[2]

\* Sprite.scale = k
scale_setter(sp, k) == [sp EXCEPT !.scale0 = VScale(TextureSize(sp), k)]

\* A width setter that leaves the height as it was.
width_setterOnly(sp, w) == [sp EXCEPT !.scale0[1] = w]

\* Sprite.width = w
width_setter(sp, w) ==
    [sp EXCEPT !.scale0 = VScale(VScale(TextureSize(sp), w),
                                 Rat[1, Textures[sp.img].width])]

\* Sprite.height = h
height_setter(sp, h) ==
    [sp EXCEPT !.scale0 = VScale(VScale(TextureSize(sp), h),
                                 Rat[1, Textures[sp.img].height])]

\* An image setter that keeps the size on screen.
image_setterKeepsSize(sp, img) == [sp EXCEPT !.img = img]

\* Sprite.image = img: the scale is read, the texture replaced and the scale
\* set again.
image_setter(sp, img) == scale_setter([sp EXCEPT !.img = img], scale(sp))

\* An anchor argument: one of the names, a number (s = "num", the number in v)
\* or None (s = "none").
Named(name) == [s |-> name, v |-> RZero]

Num(v) == [s |-> "num", v |-> v]

\* A set_anchor whose numbers are the fractions themselves.
set_anchorFraction(sp, ax, ay) ==
    LET x == IF ax.s = "left" THEN RZero
             ELSE IF ax.s = "center" THEN <<1, 2>>
             ELSE IF ax.s = "right" THEN ROne
             ELSE IF ax.s = "num" THEN ax.v
             ELSE sp.anchor[1]
        y == IF ay.s = "baseline" THEN sp.baseline
             ELSE IF ay.s = "center" THEN <<1, 2>>
             ELSE IF ay.s = "top" THEN ROne
             ELSE IF ay.s = "num" THEN ay.v
             ELSE IF ay.s = "bottom" THEN RZero
             ELSE sp.anchor[2]
    IN  [sp EXCEPT !._ax = ax, !._ay = ay, !.anchor = <<x, y>>]

\* Sprite.set_anchor(ax, ay)
set_anchor(sp, ax, ay) ==
    LET x == IF ax.s = "left" THEN RZero
             ELSE IF ax.s = "center" THEN <<1, 2>>
             ELSE IF ax.s = "right" THEN ROne
             ELSE IF ax.s = "num" THEN RDiv(ax.v, width(sp))
             ELSE sp.anchor[1]
        y == IF ay.s = "baseline" THEN sp.baseline
             ELSE IF ay.s = "center" THEN <<1, 2>>
             ELSE IF ay.s = "top" THEN ROne
             ELSE IF ay.s = "num" THEN RDiv(ay.v, width(sp))
             ELSE IF ay.s = "bottom" THEN RZero
             ELSE sp.anchor[2]
    IN  [sp EXCEPT !._ax = ax, !._ay = ay, !.anchor = <<x, y>>]

\* c2v(color, alpha) for a colour name: red, green, blue of the name and the
\* alpha given.
c2v(color, alpha) ==
    [rgb |-> IF color = "white" THEN <<1, 1, 1>>
             ELSE IF color = "red" THEN <<1, 0, 0>>
             ELSE <<0, 0, 1>>,
     a |-> alpha]

\* Sprite.color = color
color_setter(sp, color) == [sp EXCEPT !.color4 = c2v(color, sp.color4.a)]

\* Sprite(img, x, y, scale, angle, anchor_x, anchor_y, color), width and height
\* not given. rotation is the angle in degrees of the rotation quaternion; at
\* holds, for the snapshot the caller took last, the values it was taken at and
\* the properties changed since.
Sprite(img, x, y, k, angle, ax, ay, color) ==
    color_setter(
        set_anchor(
            scale_setter([n |-> 1, img |-> img, position |-> <<x, y>>,
                          rotation |-> angle, scale0 |-> <<RZero, RZero>>,
                          anchor |-> <<RZero, RZero>>, baseline |-> RZero,
                          color4 |-> [rgb |-> <<1, 1, 1>>, a |-> 1],
                          _ax |-> Named("none"), _ay |-> Named("none"),
                          s0 |-> <<>>, at |-> <<>>], k),
            ax, ay),
        color)

\* A call on the sprite leaves the sound engine alone.
SpriteFrame ==
    /\ sprite.n = 1
    /\ UNCHANGED <<snd, _soundsq, _worker_tid, threads, _workerq, _al, _dt, outdata,
                   fg, cb, hostframes, rq, script, budget, gh>>

\* glm_dumps(v): the text form of a vector or quaternion.
glm_dumps(v) == [glm |-> v]

\* glm_loads(v): the vector or quaternion a text form stands for; any other
\* value is returned as it is.
glm_loads(v) == IF DOMAIN v = {"glm"} THEN v.glm ELSE v

\* Node.get_state(): position, rotation, scale and anchor in text form.
Node_get_state(sp) ==
    [position |-> glm_dumps(sp.position), rotation |-> glm_dumps([q |-> sp.rotation]),
     scale0 |-> glm_dumps(sp.scale0), anchor |-> glm_dumps(sp.anchor)]

\* Node.set_state(s)
Node_set_state(sp, s) ==
    [sp EXCEPT !.position = glm_loads(s.position),
               !.rotation = glm_loads(s.rotation).q,
               !.scale0 = glm_loads(s.scale0),
               !.anchor = glm_loads(s.anchor)]

\* Sprite.get_state(); mipmap, autocrop, anisotropy, components and flip are
\* never assigned after construction and are left out.
get_state(sp) ==
    [node |-> Node_get_state(sp),
     color4 |-> glm_dumps(sp.color4),
     baseline |-> [num |-> sp.baseline],
     image |-> [pixels |-> sp.img]]

\* A set_state that restores the sprite's own attributes only.
set_stateOwn(sp, s) ==
    image_setter([sp EXCEPT !.color4 = glm_loads(s.color4),
                            !.baseline = glm_loads(s.baseline).num],
                 glm_loads(s.image).pixels)

\* Sprite.set_state(s): every key but node is assigned to the attribute of
\* its name (image through the image setter), then the node's state is set.
set_state(sp, s) ==
    Node_set_state(
        image_setter([sp EXCEPT !.color4 = glm_loads(s.color4),
                                !.baseline = glm_loads(s.baseline).num],
                     glm_loads(s.image).pixels),
        s.node)

\* The properties whose value differs from the one the snapshot was taken at.
Touched(sp) ==
    {p \in {"position", "rotation", "color4"} : sp[p] # sp.at[p]}

GetState ==
    /\ SpriteFrame
    /\ sprite' = [sprite EXCEPT !.s0 = get_state(sprite),
                                !.at = [position |-> sprite.position,
                                        rotation |-> sprite.rotation,
                                        color4 |-> sprite.color4,
                                        touched |-> {}]]
    /\ call' = [NoCall EXCEPT !.fn = "get_state"]

\* The snapshot is kept by the caller: a later change of the sprite only adds
\* to the record of what changed since.
Touch(sp) ==
    IF sp.at = <<>> THEN sp ELSE [sp EXCEPT !.at.touched = @ \cup Touched(sp)]

SetX(x) ==
    /\ SpriteFrame
    /\ sprite' = Touch([sprite EXCEPT !.position[1] = x])
    /\ call' = [NoCall EXCEPT !.fn = "x", !.arg = <<x>>]

SetY(y) ==
    /\ SpriteFrame
    /\ sprite' = Touch([sprite EXCEPT !.position[2] = y])
    /\ call' = [NoCall EXCEPT !.fn = "y", !.arg = <<y>>]

SetAngle(angle) ==
    /\ SpriteFrame
    /\ sprite' = Touch([sprite EXCEPT !.rotation = angle])
    /\ call' = [NoCall EXCEPT !.fn = "angle", !.arg = <<angle>>]

SetColor(color) ==
    /\ SpriteFrame
    /\ sprite' = Touch(color_setter(sprite, color))
    /\ call' = [NoCall EXCEPT !.fn = "color", !.arg = <<color>>]

SetState ==
    /\ SpriteFrame
    /\ sprite.s0 # <<>>
    /\ sprite' = set_state(sprite, sprite.s0)
    /\ call' = [NoCall EXCEPT !.fn = "set_state"]

\* The values assigned to x and y, to the angle and to the colour.
Coordinates == {<<0, 1>>, <<-7, 2>>}

Angles == {0, 90}

Colors == {"white", "red"}

\* Sprite.angle, for the quarter turns used here.
angle(sp) == sp.rotation

\* A point turned counter-clockwise around the origin by a number of degrees
\* that is a multiple of 90.
Turn(p, degrees) ==
    IF degrees % 360 = 0 THEN p
    ELSE IF degrees % 360 = 90 THEN <<RNeg(p[2]), p[1]>>
    ELSE IF degrees % 360 = 180 THEN <<RNeg(p[1]), RNeg(p[2])>>
    ELSE <<p[2], RNeg(p[1])>>

\* trbl(width, height, anchor_x, anchor_y, angle, scale): the top, right,
\* bottom and left offsets, relative to the anchor, of the bounds of the image
\* after rotation and scale.
trbl(w, h, ax, ay, degrees, k) ==
    LET corners == {Turn(<<RMul[RSub(<<x, 1>>, ax), k], RMul[RSub(<<y, 1>>, ay), k]>>,
                         degrees) : x \in {0, w}, y \in {0, h}}
        top == CHOOSE c \in corners : \A d \in corners : ~RLess(c[2], d[2])
        right == CHOOSE c \in corners : \A d \in corners : ~RLess(c[1], d[1])
        bottom == CHOOSE c \in corners : \A d \in corners : ~RLess(d[2], c[2])
        left == CHOOSE c \in corners : \A d \in corners : ~RLess(d[1], c[1])
    IN  <<top[2], right[1], bottom[2], left[1]>>

\* Sprite._trbl()
_trbl(sp) ==
    trbl(Textures[sp.img].width, Textures[sp.img].height,
         RMul[sp.anchor[1], <<Textures[sp.img].width, 1>>],
         RMul[sp.anchor[2], <<Textures[sp.img].height, 1>>],
         angle(sp), scale(sp))

\* rs in Sprite.radius, the square of the radius returned.
rs(sp) ==
    LET e == _trbl(sp)
        v == RMax(e[1], e[3])
        u == RMax(e[2], e[4])
    IN  RAdd[RMul[v, v], RMul[u, u]]

\* The square of Sprite.distance_to(o).
distance_to2(sp, o) ==
    LET dx == RSub(o.position[1], sp.position[1])
        dy == RSub(o.position[2], sp.position[2])
    IN  RAdd[RMul[dx, dx], RMul[dy, dy]]

\* Sprite.collisions_with(o): the empty array of the bounding-box test, or
\* what compute_collisions returns.
collisions_with(sp, o) ==
    LET e0 == _trbl(sp)
        e1 == _trbl(o)
        x0 == sp.position[1]
        y0 == sp.position[2]
        x1 == o.position[1]
        y1 == o.position[2]
    IN  IF \/ RLess(RAdd[e0[1], y0], RAdd[e1[3], y1])
           \/ RLess(RAdd[e1[1], y1], RAdd[e0[3], y0])
        THEN "empty"
        ELSE IF \/ RLess(RAdd[e0[2], x0], RAdd[e1[4], x1])
                \/ RLess(RAdd[e1[2], x1], RAdd[e0[4], x0])
        THEN "empty"
        ELSE "compute_collisions"

\* A wrap_position with the remainder of C's fmod, which has the sign of the
\* coordinate.
wrap_positionFmod(sp, w, h, margin) ==
    LET Fmod(x, m) == RSub(x, RMul[m, <<IF RLess(x, RZero) THEN -RFloor(RDiv(RNeg(x), m))
                                        ELSE RFloor(RDiv(x, m)), 1>>])
    IN  [sp EXCEPT !.position =
            <<RSub(Fmod(RAdd[sp.position[1], margin], RAdd[w, RMul[<<2, 1>>, margin]]),
                   margin),
              RSub(Fmod(RAdd[sp.position[2], margin], RAdd[h, RMul[<<2, 1>>, margin]]),
                   margin)>>]

\* Sprite.wrap_position(width, height, margin), the boxes not zero.
wrap_position(sp, w, h, margin) ==
    [sp EXCEPT !.position =
        <<RSub(RMod(RAdd[sp.position[1], margin], RAdd[w, RMul[<<2, 1>>, margin]]),
               margin),
          RSub(RMod(RAdd[sp.position[2], margin], RAdd[h, RMul[<<2, 1>>, margin]]),
               margin)>>]

\* One call on a constructed sprite.
GeoFrame ==
    /\ call.fn = ""
    /\ SpriteFrame

CallRadius ==
    /\ GeoFrame
    /\ call' = [NoCall EXCEPT !.fn = "radius",
                               !.out = [rs |-> rs(sprite), trbl |-> _trbl(sprite)]]
    /\ UNCHANGED sprite

\* collisions_with a sprite made like this one and placed d away.
CallCollisionsWith(d) ==
    LET o == [sprite EXCEPT !.position = <<RAdd[@[1], d[1]], RAdd[@[2], d[2]]>>]
    IN  /\ GeoFrame
        /\ call' = [NoCall EXCEPT !.fn = "collisions_with", !.arg = d,
                                   !.out = [via |-> collisions_with(sprite, o),
                                            distance2 |-> distance_to2(sprite, o),
                                            rs |-> rs(sprite)]]
        /\ UNCHANGED sprite

CallWrapPosition(w, h, margin) ==
    /\ GeoFrame
    /\ IF RAdd[w, RMul[<<2, 1>>, margin]] = RZero \/ RAdd[h, RMul[<<2, 1>>, margin]] = RZero
       THEN /\ call' = [NoCall EXCEPT !.fn = "wrap_position", !.arg = <<w, h, margin>>,
                                       !.out = [old |-> sprite.position],
                                       !.err = "ZeroDivisionError"]
            /\ UNCHANGED sprite
       ELSE /\ call' = [NoCall EXCEPT !.fn = "wrap_position", !.arg = <<w, h, margin>>,
                                       !.out = [old |-> sprite.position]]
            /\ sprite' = wrap_position(sprite, w, h, margin)

CallSetAnchor(ax, ay) ==
    /\ GeoFrame
    /\ call' = [NoCall EXCEPT !.fn = "set_anchor", !.arg = <<ax, ay>>]
    /\ sprite' = set_anchor(sprite, ax, ay)

\* The anchors sprites are constructed with and set to.
AnchorsX == {Named("left"), Named("center"), Named("right"), Num(<<1, 4>>)}

AnchorsY == {Named("bottom"), Named("center"), Named("top"), Num(<<1, 1>>)}

\* The positions sprites are constructed at.
Positions ==
    {<<RZero, RZero>>, << <<-120, 1>>, <<250, 1>> >>, << <<-7, 2>>, <<30, 1>> >>,
     << <<110, 1>>, <<-10, 1>> >>}

\* The offsets of the other sprite.
Offsets ==
    {<< <<10, 1>>, RZero >>, << <<150, 1>>, RZero >>, << RZero, <<-300, 1>> >>,
     << <<120, 1>>, <<120, 1>> >>, << <<-60, 1>>, <<45, 1>> >>}

\* width, height and margin of the boxes wrapped into.
Boxes ==
    {<< <<100, 1>>, <<80, 1>>, <<50, 1>> >>, << <<100, 1>>, <<80, 1>>, RZero >>,
     << <<10, 1>>, <<7, 2>>, <<-1, 1>> >>, << <<100, 1>>, <<100, 1>>, <<-50, 1>> >>}

\* The values assigned to scale, width and height.
Factors == {<<1, 2>>, <<1, 1>>, <<2, 1>>, <<3, 1>>}

Pixels == {<<1, 1>>, <<50, 1>>, <<100, 1>>, <<200, 1>>}

AssignScale(k) ==
    /\ SpriteFrame
    /\ sprite' = scale_setter(sprite, k)
    /\ call' = [NoCall EXCEPT !.fn = "scale", !.arg = <<k>>]

AssignWidth(w) ==
    /\ SpriteFrame
    /\ sprite' = width_setter(sprite, w)
    /\ call' = [NoCall EXCEPT !.fn = "width", !.arg = <<w>>]

AssignHeight(h) ==
    /\ SpriteFrame
    /\ sprite' = height_setter(sprite, h)
    /\ call' = [NoCall EXCEPT !.fn = "height", !.arg = <<h>>]

AssignImage(img) ==
    /\ SpriteFrame
    /\ sprite' = image_setter(sprite, img)
    /\ call' = [NoCall EXCEPT !.fn = "image", !.arg = <<img>>,
                               !.out = [width |-> width(sprite),
                                        height |-> height(sprite),
                                        scale |-> scale(sprite),
                                        img |-> sprite.img]]

-----------------------------------------------------------------------------
\* Specifications.

\* The sounds the program constructs: Sample(path, amp, pan, loop, duration).
SampleArgs ==
    <<[path |-> 2, amp |-> <<1, 1>>, pan |-> <<1, 1>>, loop |-> FALSE, duration |-> 0],
      [path |-> 2, amp |-> <<1, 2>>, pan |-> <<0, 1>>, loop |-> TRUE,  duration |-> 0],
      [path |-> 3, amp |-> <<1, 2>>, pan |-> <<0, 1>>, loop |-> FALSE, duration |-> 0],
      [path |-> 3, amp |-> <<1, 2>>, pan |-> <<0, 1>>, loop |-> TRUE,  duration |-> 0],
      [path |-> 3, amp |-> <<1, 2>>, pan |-> <<0, 1>>, loop |-> FALSE, duration |-> 4096]>>

Sample(a) == NewSample(a.path, a.amp, a.pan, a.loop, a.duration)

\* The state once the module is imported (the import is inside its call of
\* _init_worker_thread) and the program has constructed its sounds.
InitSound ==
    /\ _soundsq = <<>>
    /\ _worker_tid = 0
    /\ threads = <<>>
    /\ _workerq = 0
    /\ _al = <<>>
    /\ _dt = <<>>
    /\ outdata = [frames |-> 0, d |-> <<>>]
    /\ fg = [FgIdle EXCEPT !.pc = "iw_check"]
    /\ cb = CbIdle
    /\ rq = [pc |-> "idle", tmp |-> 0]
    /\ script = [syd |-> [c \in {} |-> 0], dtd |-> [c \in {} |-> 0],
                 now |-> 1, n |-> 0]
    /\ call = NoCall
    /\ budget = [ops |-> 0, callbacks |-> 0]
    /\ gh = [armed |-> [s \in 1 .. MaxSounds + 1 |-> FALSE],
             stopped |-> [s \in 1 .. MaxSounds + 1 |-> FALSE],
             sawstop |-> {},
             rel |-> [s \in 1 .. MaxSounds + 1 |-> -1],
             refused |-> 0,
             nseen |-> {}]

\* No sprite was constructed.
NoSprite == [n |-> 0]

InitCommon ==
    /\ InitSound
    /\ sprite = NoSprite

Worker ==
    \/ InitWorkerCheck
    \/ InitWorkerStart
    \/ InitWorkerAssign
    \/ \E t \in 1 .. Len(threads) : StreamEnter(t)

CbSteps ==
    \/ CbGet
    \/ CbGetDone
    \/ CbGetApply
    \/ CbGetEnd
    \/ CbConsume
    \/ CbLoop
    \/ CbC0Check
    \/ CbC0Reset
    \/ CbC0Zero
    \/ CbC0Read
    \/ CbC0AddRead
    \/ CbC0AddStore
    \/ CbShape
    \/ CbSum
    \/ CbPutDone
    \/ CbPutApply
    \/ CbHist

Callback == (\E frames \in hostframes : CbBegin(frames)) \/ CbSteps

PlayCall == PlayLoad \/ PlayCheck \/ PlayReset \/ PlayPut

\* Two short sounds, one of them looping, two frames per callback: play,
\* play_new and stop against the callback.
Init ==
    /\ InitCommon
    /\ snd = <<Sample(SampleArgs[1]), Sample(SampleArgs[2])>>
    /\ hostframes = {2}

Next ==
    \/ Worker
    \/ Callback
    \/ PlayCall
    \/ \E s \in 1 .. MaxSounds, ov \in {1, 2} : Play(s, ov)
    \/ \E s \in 1 .. MaxSounds, ov \in {1, 2} : PlayNew(s, ov)
    \/ PlayNewSet
    \/ \E s \in 1 .. MaxSounds : Stop(s)

Spec == Init /\ [][Next]_vars

\* Start requests from the importing thread and from a second thread, the
\* shutdown signal, and play against the callback.
InitStream ==
    /\ InitCommon
    /\ snd = <<Sample(SampleArgs[1])>>
    /\ hostframes = {2}

NextStream ==
    \/ Worker
    \/ InitWorker
    \/ ReqCall
    \/ ReqCheck
    \/ ReqStart
    \/ ReqAssign
    \/ WorkerqPut
    \/ \E t \in 1 .. Len(threads) : StreamClose(t)
    \/ \E t \in 1 .. Len(threads) : StreamExit(t)
    \/ Callback
    \/ PlayCall
    \/ \E s \in 1 .. MaxSounds : Play(s, 1)

SpecStream == InitStream /\ [][NextStream]_vars

CallbackFree == (\E frames \in hostframes : CbBeginFree(frames)) \/ CbSteps

\* Callbacks of 1024 frames without end, and a sound played over them.
InitHist ==
    /\ InitCommon
    /\ snd = <<Sample(SampleArgs[3])>>
    /\ hostframes = {1024}

NextHist ==
    \/ Worker
    \/ CallbackFree
    \/ PlayCall
    \/ \E s \in 1 .. MaxSounds : Play(s, 1)

SpecHist == InitHist /\ [][NextHist]_vars

\* An endless loop, play and play_release, callbacks of 4096 frames.
InitRelease ==
    /\ InitCommon
    /\ snd = <<Sample(SampleArgs[4])>>
    /\ hostframes = {4096}

NextRelease ==
    \/ Worker
    \/ Callback
    \/ PlayCall
    \/ \E s \in 1 .. MaxSounds : Play(s, 1)
    \/ \E s \in 1 .. MaxSounds, release \in ReleaseArgs : PlayRelease(s, release)
    \/ PlayReleaseWrite

SpecRelease == InitRelease /\ [][NextRelease]_vars

\* A non-looping sound and a looping sound with a duration; callbacks of 4096
\* frames keep coming.
InitLive ==
    /\ InitCommon
    /\ snd = <<Sample(SampleArgs[3]), Sample(SampleArgs[5])>>
    /\ hostframes = {4096}

NextLive ==
    \/ Worker
    \/ CallbackFree
    \/ PlayCall
    \/ \E s \in 1 .. MaxSounds : Play(s, 1)
    \/ \E s \in 1 .. MaxSounds : Stop(s)

SpecLive ==
    /\ InitLive
    /\ [][NextLive]_vars
    /\ WF_vars(CallbackFree)
    /\ WF_vars(Worker)

\* A script of use, play and sleep calls from two call sites; the copies
\* play makes are enqueued.
InitScript ==
    /\ InitCommon
    /\ snd = <<Sample(SampleArgs[1])>>
    /\ hostframes = {2}

NextScript ==
    \/ Worker
    \/ \E cf \in Sites, s \in 1 .. MaxSounds, ov \in {1, 2} : Use(cf, s, ov)
    \/ \E cf \in Sites, note \in Notes, ov \in {1, 4} : ScriptPlay(cf, note, ov)
    \/ PlayNewSet
    \/ PlayLoad
    \/ PlayCheck
    \/ PlayPut
    \/ \E cf \in Sites, dt \in SleepArgs : Sleep(cf, dt)
    \/ Tick

SpecScript == InitScript /\ [][NextScript]_vars

\* A sound with a duration: its envelope is set, asked for and released while
\* it plays, callbacks of 1024 frames.
InitEnvelope ==
    /\ InitCommon
    /\ snd = <<Sample(SampleArgs[5])>>
    /\ hostframes = {1024}

NextEnvelope ==
    \/ Worker
    \/ Callback
    \/ PlayCall
    \/ \E s \in 1 .. MaxSounds, ov \in {1, 5} : Play(s, ov)
    \/ \E s \in 1 .. MaxSounds, kw \in EnvelopeArgs : SetEnvelope(s, kw)
    \/ \E s \in 1 .. MaxSounds, release \in ReleaseArgs : PlayRelease(s, release)
    \/ PlayReleaseWrite
    \/ \E s \in 1 .. MaxSounds : GetAdsr(s)
    \/ GetAdsrStore

SpecEnvelope == InitEnvelope /\ [][NextEnvelope]_vars

\* A 2048-frame sound that does not loop and one that does, played with and
\* without an envelope and released; the calls of play and play_release and
\* the callbacks (of 2046 and of 4096 frames) do not overlap.
InitConsume ==
    /\ InitCommon
    /\ snd = <<Sample(SampleArgs[3]), Sample(SampleArgs[4])>>
    /\ hostframes = {2046, 4096}

NextConsume ==
    \/ Worker
    \/ (fg.pc = "idle" /\ Callback)
    \/ (cb.pc = "idle" /\ PlayCall)
    \/ (cb.pc = "idle" /\ \E s \in 1 .. MaxSounds, ov \in {1, 5} : Play(s, ov))
    \/ (cb.pc = "idle" /\ \E s \in 1 .. MaxSounds : PlayRelease(s, 0))
    \/ (cb.pc = "idle" /\ PlayReleaseWrite)

SpecConsume == InitConsume /\ [][NextConsume]_vars

\* A 2048-frame sound played with and without an envelope and stopped, and
\* the quit signal, against callbacks of 2046 and of 4096 frames.
InitQuiet ==
    /\ InitCommon
    /\ snd = <<Sample(SampleArgs[3])>>
    /\ hostframes = {2046, 4096}

NextQuiet ==
    \/ Worker
    \/ Callback
    \/ PlayCall
    \/ \E s \in 1 .. MaxSounds, ov \in {1, 5} : Play(s, ov)
    \/ \E s \in 1 .. MaxSounds : Stop(s)
    \/ QueueQuit

SpecQuiet == InitQuiet /\ [][NextQuiet]_vars

\* The oscilloscope is read while callbacks of 512 frames fill the history.
InitScope ==
    /\ InitCommon
    /\ snd = <<Sample(SampleArgs[1])>>
    /\ hostframes = {512}

NextScope ==
    \/ Worker
    \/ Callback
    \/ PlayCall
    \/ \E s \in 1 .. MaxSounds : Play(s, 1)
    \/ \E size \in ScopeSizes : ScopeCall(size)
    \/ ScopeRead

SpecScope == InitScope /\ [][NextScope]_vars

\* A sprite whose scale, width, height and image are assigned.
InitSize ==
    /\ InitSound
    /\ snd = <<>>
    /\ hostframes = {512}
    /\ \E img \in DOMAIN Textures, k \in Factors :
          sprite = Sprite(img, RZero, RZero, k, 0, Named("center"), Named("center"),
                          "white")

NextSize ==
    \/ \E k \in Factors : AssignScale(k)
    \/ \E w \in Pixels : AssignWidth(w)
    \/ \E h \in Pixels : AssignHeight(h)
    \/ \E img \in DOMAIN Textures : AssignImage(img)

SpecSize == InitSize /\ [][NextSize]_vars

\* A freshly constructed sprite whose position, rotation and colour are
\* assigned and whose state is taken and set.
InitState ==
    /\ InitSound
    /\ snd = <<>>
    /\ hostframes = {512}
    /\ \E img \in {1, 3} :
          sprite = Sprite(img, RZero, RZero, ROne, 0, Named("center"), Named("center"),
                          "white")

NextState ==
    \/ GetState
    \/ SetState
    \/ \E x \in Coordinates : SetX(x)
    \/ \E y \in Coordinates : SetY(y)
    \/ \E degrees \in Angles : SetAngle(degrees)
    \/ \E color \in Colors : SetColor(color)
    \/ \E img \in {1, 3} : AssignImage(img)

SpecState == InitState /\ [][NextState]_vars

\* One call on a sprite constructed from arguments drawn from small sets.
InitGeometry ==
    /\ InitSound
    /\ snd = <<>>
    /\ hostframes = {512}
    /\ \E img \in {1, 3}, p \in Positions, k \in {ROne, <<1, 2>>}, degrees \in Angles,
          ax \in AnchorsX, ay \in AnchorsY :
          sprite = Sprite(img, p[1], p[2], k, degrees, ax, ay, "white")

NextGeometry ==
    \/ CallRadius
    \/ \E d \in Offsets : CallCollisionsWith(d)
    \/ \E b \in Boxes : CallWrapPosition(b[1], b[2], b[3])
    \/ \E ax \in AnchorsX \cup {Named("none")}, ay \in AnchorsY \cup {Named("baseline")} :
          CallSetAnchor(ax, ay)

SpecGeometry == InitGeometry /\ [][NextGeometry]_vars

\* Calls of the module's functions on arguments drawn from small sets.
InitPure ==
    /\ InitCommon
    /\ snd = <<>>
    /\ hostframes = {2}

NextPure ==
    \/ \E q \in 0 .. MaxQuarters : CallT2frames(q)
    \/ \E nm \in NoteNames : CallNoteKey(nm)
    \/ \E k \in DOMAIN _notes, o \in 0 .. Octaves - 1 : CallNoteAttribute(k, o)
    \/ \E f \in FreqArgs : CallFreqCycles(f)
    \/ \E shape \in Shapes, cycles \in 1 .. MaxCycles, frames \in WaveFrames :
          CallWave(shape, cycles, frames)
    \/ \E path \in Paths, channels \in 1 .. MaxChannels :
          CallLoadSound(path, channels)
    \/ \E path \in Paths, channels \in 1 .. MaxChannels :
          CallLoad(path, channels)
    \/ \E dn \in Durations, kw \in Envelopes : CallGetAdsr(dn, kw)

SpecPure == InitPure /\ [][NextPure]_vars

-----------------------------------------------------------------------------
\* The currently-playing set.

\* The sounds the callback holds: the list _get_sounds builds (with the sound
\* it has just taken from the queue) until _put_sounds has gone past them.
Held ==
    CASE cb.pc \in {"get_done", "get_app"} -> Append(cb.sounds, cb.s)
      [] cb.pc \in {"put", "put_app"}      -> SubSeq(cb.sounds, cb.k, Len(cb.sounds))
      [] cb.pc \in {"hist", "idle"}        -> <<>>
      [] OTHER                             -> cb.sounds

PlayingSet == _soundsq \o Held

Occurrences(s) == Cardinality({i \in 1 .. Len(PlayingSet) : PlayingSet[i] = s})

\* C1: under every interleaving of play, play_new and stop with the callback,
\* a sound occurs at most once in the queue together with the list the
\* callback holds.
C1_AtMostOnce == \A s \in 1 .. Len(snd) : Occurrences(s) <= 1

\* C1: play() has returned on a sound that was already playing, and the sound
\* is in the set exactly once.
C1_Witness ==
    \E s \in 1 .. Len(snd) :
        /\ fg.pc = "idle"
        /\ gh.armed[s]
        /\ snd[s].playing
        /\ Occurrences(s) = 1

\* C2: once play() has returned on a sound that was already playing, the next
\* chunk the callback reads from the sound starts at frame 0 of the buffer and
\* the call of _consume0 that reads it has cleared the reset flag.
C2_NextChunkRestarts ==
    [][(cb.pc = "c0_read" /\ cb'.pc = "c0_add" /\ gh.armed[cb.s])
          => (cb'.index = 0 /\ ~snd[cb.s].reset)]_vars

\* C4: when a callback that started after stop() returned (with no play()
\* since) has ended, the sound is out of the set and its playing flag is False.
C4_StoppedIsRemoved ==
    \A s \in gh.sawstop :
        cb.pc = "idle" => (~snd[s].playing /\ Occurrences(s) = 0)

\* C4: an endless loop that was playing has been removed by such a callback.
C4_Witness ==
    \E s \in gh.sawstop :
        /\ cb.pc = "idle"
        /\ snd[s].loop /\ snd[s].duration = 0 /\ snd[s].index > 0
        /\ ~snd[s].playing

NoLoopNoDuration(o) == o.buffer # 0 /\ ~o.loop /\ o.duration = 0

\* C6 as stated: for a loaded sound with loop=False and duration=0, done is
\* True exactly when the index has reached the length of the buffer.
C6_DoneIffExhausted ==
    \A s \in 1 .. Len(snd) :
        NoLoopNoDuration(snd[s])
            => (done(snd[s]) <=> snd[s].index >= BufLen(snd[s].buffer))

\* C6 amended: for a loaded sound with loop=False and duration=0, done is
\* True exactly when the stop flag is set or the index has reached the length
\* of the buffer.
C6_DoneIffStoppedOrExhausted ==
    \A s \in 1 .. Len(snd) :
        NoLoopNoDuration(snd[s])
            => (done(snd[s]) <=> (snd[s]._stop \/ snd[s].index >= BufLen(snd[s].buffer)))

\* C6: such a sound was stopped after it had played part of its buffer.
C6_Witness ==
    \E s \in 1 .. Len(snd) :
        /\ NoLoopNoDuration(snd[s])
        /\ snd[s]._stop
        /\ snd[s].index > 0 /\ snd[s].index < BufLen(snd[s].buffer)

RECURSIVE ContributionSum(_, _, _)
ContributionSum(d, i, c) ==
    IF d = <<>> THEN RZero
    ELSE RAdd[ShapedAt(d[Len(d)], i, c), ContributionSum(SubSeq(d, 1, Len(d) - 1), i, c)]

InUnit(x) == ~RLess(x, <<-1, 1>>) /\ ~RLess(<<1, 1>>, x)

Clamped(x) == IF RLess(<<1, 1>>, x) THEN <<1, 1>> ELSE IF RLess(x, <<-1, 1>>) THEN <<-1, 1>> ELSE x

\* C9: when the callback has written the output buffer, every sample in it is
\* the sum of the kept sounds' contributions at that frame and channel, clamped
\* to [-1, 1]; there is one contribution of exactly N frames for each sound
\* kept; no sample is outside [-1, 1]; the buffer is all zeros when no sound
\* was kept.
C9_OutputIsClampedSum ==
    /\ (cb.pc = "put" /\ cb.k = 1)
           => /\ outdata.frames = cb.frames
              /\ Len(Samples(outdata)) = cb.frames
              /\ Len(outdata.d) = Len(cb.sounds)
              /\ \A j \in 1 .. Len(cb.sounds) :
                     /\ outdata.d[j].s = cb.sounds[j]
                     /\ SegRows(outdata.d[j].bl) = cb.frames
              /\ \A i \in 1 .. cb.frames : \A c \in 1 .. 2 :
                     /\ Samples(outdata)[i][c] = Clamped(ContributionSum(outdata.d, i, c))
                     /\ InUnit(Samples(outdata)[i][c])
    /\ (cb.pc = "hist" /\ cb.sounds = <<>>)
           => /\ outdata.frames = cb.frames
              /\ Len(Samples(outdata)) = cb.frames
              /\ \A i \in 1 .. cb.frames : \A c \in 1 .. 2 :
                     Samples(outdata)[i][c] = <<0, 1>>

\* C9: two sounds were mixed and a sum above 1 was written as 1.
C9_Witness ==
    /\ cb.pc = "put"
    /\ Len(outdata.d) = 2
    /\ \E i \in 1 .. outdata.frames : \E c \in 1 .. 2 :
           /\ RLess(<<1, 1>>, ContributionSum(outdata.d, i, c))
           /\ Samples(outdata)[i][c] = <<1, 1>>

Params ==
    {"path", "amp", "pan", "loop", "duration", "min_duration", "attack",
     "decay", "sustain", "release"}

\* C10: no step of play_new changes a field of the original; the copy is
\* another object, and before play enqueues it its index is 0, its reset, stop
\* and playing flags are cleared, and each parameter is the original's unless
\* an override names it.
C10_PlayNewCopies ==
    /\ [](fg.src # 0 =>
            /\ fg.s # fg.src
            /\ fg.pc \in {"new_set", "play_load", "play_check", "play_put"}
            /\ snd[fg.s].index = 0
            /\ ~snd[fg.s].reset /\ ~snd[fg.s]._stop /\ ~snd[fg.s].playing
            /\ \A k \in Params :
                   snd[fg.s][k] =
                       IF fg.pc # "new_set" /\ k \in DOMAIN Overrides[fg.ov]
                       THEN Overrides[fg.ov][k] ELSE snd[fg.src][k])
    /\ [][(fg' # fg /\ (fg.src # 0 \/ fg'.src # 0))
             => LET o == IF fg.src # 0 THEN fg.src ELSE fg'.src
                IN  snd'[o] = snd[o]]_vars

\* C10: play_new with overrides on a sound that is playing and has advanced,
\* at the point where the copy is about to be enqueued.
C10_Witness ==
    /\ fg.src # 0
    /\ fg.pc = "play_put"
    /\ fg.ov = 2
    /\ snd[fg.src].playing
    /\ snd[fg.src].index > 0
    /\ snd[fg.s].amp # snd[fg.src].amp

Eligible(o) == ~o.loop \/ o.duration > 0

\* A call of play on sound s is in progress.
Retriggered(s) == fg.s = s /\ fg.pc \in {"play_load", "play_check", "play_reset", "play_put"}

\* C3: while callbacks keep coming, a sound in the set that does not loop, or
\* that loops with a duration above 0, is eventually out of the set with its
\* playing flag False, unless play is called on it again first.
C3_EventuallyRemoved ==
    \A s \in 1 .. MaxSounds :
        (s <= Len(snd) /\ Occurrences(s) > 0 /\ Eligible(snd[s]))
            ~> (s <= Len(snd) /\ ((Occurrences(s) = 0 /\ ~snd[s].playing) \/ Retriggered(s)))

\* C3: the looping sound with a duration has played through its envelope and
\* was removed without a call of stop; so was the non-looping sound.
C3_Witness ==
    /\ cb.pc = "idle"
    /\ \E s \in 1 .. Len(snd) :
           /\ snd[s].loop /\ snd[s].duration > 0
           /\ snd[s].index > 0 /\ ~snd[s]._stop
           /\ ~snd[s].playing /\ Occurrences(s) = 0
    /\ \E s \in 1 .. Len(snd) :
           /\ ~snd[s].loop
           /\ snd[s].index > 0 /\ ~snd[s]._stop
           /\ ~snd[s].playing /\ Occurrences(s) = 0

\* The frames of the release ramp of sound o.
ReleaseFrames(o) == T2F(Max(o.release, MinStage))

MaxFrames == CHOOSE n \in hostframes : \A m \in hostframes : m <= n

\* C5: after play_release() on a playing looping sound, at whatever index, the
\* sound is removed before its index has passed the index at the call by more
\* than the release ramp, a margin of 8 frames and one callback's frames.
C5_ReleaseEnds ==
    \A s \in 1 .. Len(snd) :
        (gh.rel[s] >= 0 /\ snd[s].loop /\ snd[s].playing)
            => snd[s].index <= gh.rel[s] + ReleaseFrames(snd[s]) + GracePeriod + MaxFrames

\* The same bound for the calls of play_release that read an index above 0.
ReleaseEndsAfterFirstFrame ==
    \A s \in 1 .. Len(snd) :
        (gh.rel[s] >= 0 /\ snd[s].loop /\ snd[s].playing /\ snd[s].duration > 0)
            => snd[s].index <= gh.rel[s] + ReleaseFrames(snd[s]) + GracePeriod + MaxFrames

\* C7: after every callback the chunks in the oscilloscope history hold at
\* most 44100 frames in total.
C7_HistoryWithinOneSecond == cb.pc = "idle" => SumSeq(_al) <= FPS

\* C8: at most one worker thread exists and at most one output stream is open,
\* however the calls of _init_worker_thread interleave.
C8_OneWorker ==
    /\ Cardinality({t \in 1 .. Len(threads) : threads[t] # "exited"}) <= 1
    /\ Cardinality({t \in 1 .. Len(threads) : threads[t] = "running"}) <= 1

-----------------------------------------------------------------------------
\* Overrides, call sites and sleep.

\* C11: the override loop of play sets each override key that is already an
\* attribute of the instance and nothing else: no attribute is created and no
\* other field changes; and when such a call of play returns the sound is
\* playing and in the queue.
C11_OverridesOnlyExisting ==
    /\ [][(fg'.pc = "play_load" /\ fg.pc \in {"idle", "new_set"})
            => LET s  == fg'.s
                   kw == Overrides[fg'.ov]
               IN  /\ DOMAIN snd'[s] = DOMAIN snd[s]
                   /\ \A k \in DOMAIN snd[s] :
                          snd'[s][k] = IF k \in DOMAIN kw THEN kw[k] ELSE snd[s][k]]_vars
    /\ [][(fg.pc \in {"play_put", "play_reset"} /\ fg'.pc = "idle")
            => /\ snd'[fg.s].playing
               /\ \E i \in 1 .. Len(_soundsq') : _soundsq'[i] = fg.s]_vars

\* C11: play with the overrides volume (no such attribute) and amp has
\* returned: amp is set, there is no attribute volume, the sound is enqueued.
C11_Witness ==
    /\ fg.pc = "idle"
    /\ call.fn = "play" /\ call.err = "" /\ call.arg[2] = 4
    /\ "volume" \notin DOMAIN snd[call.out]
    /\ snd[call.out].amp = <<1, 4>>
    /\ snd[call.out].playing
    /\ \E i \in 1 .. Len(_soundsq) : _soundsq[i] = call.out

\* The target time of call site c in the map d, 0 when it has none.
Target(d, c) == IF c \in DOMAIN d THEN d[c] ELSE 0

\* C12: a call of sleep(dt) at a site sets the site's target to
\* max(previous target + max(dt, 0), now), the previous target being now on
\* the site's first call; the wait it asks for is target - now and is not
\* negative; and no step lowers a site's target.
C12_SleepTarget ==
    /\ [][(script'.n # script.n /\ call'.fn = "sleep")
            => LET cf   == call'.site
                   dt   == call'.arg[1]
                   now  == script.now
                   prev == IF cf \in DOMAIN script.dtd THEN script.dtd[cf] ELSE now
                   t1   == Max(prev + Max(dt, 0), now)
               IN  /\ cf \in DOMAIN script'.dtd
                   /\ script'.dtd[cf] = t1
                   /\ call'.out = t1 - now
                   /\ call'.out >= 0]_vars
    /\ [][\A c \in Sites : Target(script'.dtd, c) >= Target(script.dtd, c)]_vars

\* C12: a second sleep at a site whose target was still ahead of the clock:
\* the wait is longer than the dt asked for.
C12_Witness ==
    /\ call.fn = "sleep"
    /\ call.arg[1] = 1
    /\ call.out = 2
    /\ script.dtd[call.site] = script.now + 2

\* C13: a call of use, play or sleep at one call site leaves the instrument
\* bound and the target time of every other call site as they were, and no
\* step of play changes a field of the instrument bound at the site.
C13_SitesIndependent ==
    /\ [][script'.n # script.n
            => \A c \in Sites \ {call'.site} :
                   /\ (c \in DOMAIN script'.syd) = (c \in DOMAIN script.syd)
                   /\ (c \in DOMAIN script'.dtd) = (c \in DOMAIN script.dtd)
                   /\ c \in DOMAIN script.syd
                          => /\ script'.syd[c] = script.syd[c]
                             /\ snd'[script.syd[c]] = snd[script.syd[c]]
                   /\ c \in DOMAIN script.dtd => script'.dtd[c] = script.dtd[c]]_vars
    /\ [][(call'.fn = "play" /\ call'.err = "" /\ (fg' # fg \/ script'.n # script.n))
            => LET cf == call'.site
               IN  /\ cf \in DOMAIN script.syd
                   /\ script'.syd = script.syd
                   /\ snd'[script.syd[cf]] = snd[script.syd[cf]]
                   /\ call'.out # script.syd[cf]]_vars

\* C13: every site has an instrument, the instruments are different objects,
\* and a play at one of the sites has returned.
C13_Witness ==
    /\ fg.pc = "idle"
    /\ call.fn = "play" /\ call.err = ""
    /\ DOMAIN script.syd = Sites
    /\ \E c \in Sites : script.syd[c] # script.syd[call.site]
    /\ snd[call.out].playing

-----------------------------------------------------------------------------
\* Time, notes, waves, files and the envelope.

\* The whole numbers nearest to q / 4.
Nearest(q) ==
    CASE q % 4 = 2 -> {q \div 4, q \div 4 + 1}
      [] q % 4 = 3 -> {q \div 4 + 1}
      [] OTHER     -> {q \div 4}

\* C14: t2frames(t) is t * 44100 rounded to the nearest whole number of
\* frames (either neighbour at a half).
C14_T2framesRounds ==
    call.fn = "t2frames" => call.out \in Nearest(call.arg[1])

\* The spellings of a table name: each s as it is or written #.
Spellings(nm) ==
    {sp \in [1 .. Len(nm) -> NoteChars] :
        \A i \in 1 .. Len(nm) : sp[i] = nm[i] \/ (nm[i] = "s" /\ sp[i] = "#")}

\* The note names: a spelling of a table name and at most one octave digit.
IsNoteName(note) ==
    \E nm \in DOMAIN _notes : \E sp \in Spellings(nm) :
        \/ note = sp
        \/ \E d \in DOMAIN DigitValue : note = Append(sp, d)

\* C15: for a table name with # read as s and an optional octave digit,
\* get_note_key is table[name] + 12 * octave + 11 with octave 4 when there is no
\* digit; enharmonic names give one key; A4 gives 69 and C4 gives 60; any other
\* name fails with a lookup error.
C15_NoteKey ==
    call.fn = "get_note_key" =>
        LET note == call.arg[1]
        IN  /\ \A nm \in DOMAIN _notes : \A sp \in Spellings(nm) :
                  /\ note = sp => (call.err = "" /\ call.out = _notes[nm] + 12 * 4 + 11)
                  /\ \A d \in DOMAIN DigitValue :
                         note = Append(sp, d)
                             => (call.err = "" /\ call.out = _notes[nm] + 12 * DigitValue[d] + 11)
            /\ note = <<"A", "4">> => call.out = 69
            /\ note = <<"C", "4">> => call.out = 60
            /\ note \in {<<"C", "s", "5">>, <<"C", "#", "5">>, <<"D", "b", "5">>}
                   => call.out = 2 + 60 + 11
            /\ ~IsNoteName(note) => call.err \in {"KeyError", "IndexError"}

\* C15: get_note_key was called on a sharp written with #, without a digit.
C15_Witness ==
    /\ call.fn = "get_note_key"
    /\ call.arg[1] = <<"A", "#">>
    /\ call.out = 11 + 48 + 11

\* C16: get_freq_cycles(440) returns a cycle count c in 1 .. 32 and a frame
\* count n with |n / c - 44100 / 440| at most 0.06 times the score it returns.
C16_SeamWithinScore ==
    (call.fn = "get_freq_cycles" /\ call.arg = <<440>>) =>
        LET c   == call.out[1]
            n   == call.out[2]
            b   == Rat[call.out[3], 10000]
            dev == RAdd[Rat[n, c], RNeg(Rat[FPS, 440])]
        IN  /\ c \in 1 .. MaxCycleCount
            /\ ~ RLess(RMul[<<3, 50>>, b], <<Abs(dev[1]), dev[2]>>)

\* C16 as the code has it: the returned score is the deviation relative to
\* the frames of the c cycles, rounded to four decimals, so |n / c - 44100 / f|
\* is at most 0.06 x (score + 0.00005) x 44100 / f, and n is the rounded
\* c x 44100 / f.
C16_SeamWithinRelativeScore ==
    call.fn = "get_freq_cycles" =>
        LET f   == call.arg[1]
            c   == call.out[1]
            n   == call.out[2]
            b   == Rat[2 * call.out[3] + 1, 20000]
            f0  == Rat[FPS, f]
            dev == RAdd[Rat[n, c], RNeg(f0)]
        IN  /\ c \in 1 .. MaxCycleCount
            /\ n = RRound(RMul[f0, <<c, 1>>])
            /\ ~ RLess(RMul[RMul[<<3, 50>>, b], f0], <<Abs(dev[1]), dev[2]>>)

C16_Witness ==
    /\ call.fn = "get_freq_cycles"
    /\ call.arg = <<440>>
    /\ call.out = <<9, 902, 8>>

\* C17: for every cycles >= 1 and frames >= 1 each waveform generator returns
\* exactly cycles x frames samples, all in [-1, 1], and in every cycle of the
\* pulse wave the first frames // 2 samples are -1 and the others are +1.
C17_WaveSamples ==
    call.fn \in Shapes =>
        LET cycles == call.arg[1]
            frames == call.arg[2]
            wave   == call.out
        IN  /\ Len(wave) = cycles * frames
            /\ \A i \in 1 .. Len(wave) :
                  ~ RLess(wave[i], <<-1, 1>>) /\ ~ RLess(ROne, wave[i])
            /\ call.fn = "pulse" =>
                  \A k \in 0 .. cycles - 1 : \A i \in 1 .. frames :
                    wave[k * frames + i] =
                        IF i <= frames \div 2 THEN <<-1, 1>> ELSE ROne

C17_Witness ==
    /\ call.fn = "pulse"
    /\ call.arg = <<2, 5>>
    /\ call.out = << <<-1, 1>>, <<-1, 1>>, ROne, ROne, ROne,
                     <<-1, 1>>, <<-1, 1>>, ROne, ROne, ROne >>

\* C18: load_sound(path, channels) returns an array with exactly the
\* requested number of channels whatever the file holds (the last channel
\* replicated when the file has fewer, the extra ones dropped when it has
\* more), and after Sample.load(channels = c) the channels field is c.
C18_RequestedChannels ==
    /\ call.fn = "load_sound" =>
          LET d0 == File(call.arg[1]).data
              w0 == IF File(call.arg[1]).ndim = 1 THEN 1 ELSE Len(d0[1])
          IN  /\ Len(call.out) = Len(d0)
              /\ \A i \in 1 .. Len(call.out) :
                    /\ Len(call.out[i]) = call.arg[2]
                    /\ \A c \in 1 .. call.arg[2] :
                          call.out[i][c] =
                              IF File(call.arg[1]).ndim = 1 THEN d0[i]
                              ELSE d0[i][Min(c, w0)]
    /\ call.fn = "load" => call.out = call.arg[2]

\* C19: for a sound whose duration is at least its attack time plus its
\* decay time (each floored at 0.01 s), the envelope curve is 1.0 at the last
\* frame of the attack ramp, the sustain level at the last frame of the decay
\* ramp and 0.0 at the last frame of the release ramp, and 4096 zero frames
\* follow.
C19_EnvelopeCorners ==
    (/\ call.fn = "get_adsr"
     /\ call.arg[1] >= Max(call.arg[3], MinStage) + Max(call.arg[4], MinStage)) =>
        LET h   == call.out
            end == h.la + h.ld + h.ls + h.nr
        IN  /\ AdsrRow(h, h.la - 1) = ROne
            /\ AdsrRow(h, h.la + h.ld - 1) = call.arg[5]
            /\ AdsrRow(h, end - 1) = RZero
            /\ AdsrLen(h) = end + ZeroPad
            /\ \A i \in end .. AdsrLen(h) - 1 : AdsrRow(h, i) = RZero

\* The sound on which the callback's next step calls get_adsr, or 0.
CbAsksCurve ==
    LET s == CASE cb.pc \in {"get_done", "shape"} -> cb.s
               [] cb.pc = "loop" /\ cb.left > 0 -> cb.s
               [] cb.pc = "put" /\ cb.k <= Len(cb.sounds) -> cb.sounds[cb.k]
               [] OTHER -> 0
    IN  IF s = 0 \/ snd[s].duration = 0 THEN 0
        ELSE IF cb.pc # "shape" /\ (snd[s]._stop \/ ~snd[s].loop) THEN 0
        ELSE s

\* C20: after any sequence of set_envelope, play with overrides, play_release
\* and get_adsr calls, a call of get_adsr returns the curve of the sound's
\* current (duration, min_duration, attack, decay, sustain, release), and the
\* cached tuple and curve are rewritten only when the tuple differs by value
\* from the cached one.
C20_CurveOfCurrentTuple ==
    [][/\ \A s \in 1 .. Len(snd) :
            /\ snd'[s].adsr0 # snd[s].adsr0 =>
                  /\ snd[s].adsr0 # AdsrKey(snd[s])
                  /\ snd'[s].adsr0 = AdsrKey(snd[s])
            /\ snd'[s].adsr1 # snd[s].adsr1 =>
                  snd'[s].adsr1 = AdsrShape(AdsrKey(snd[s]))
       /\ (call' # call /\ call'.fn = "get_adsr") =>
            call'.out = AdsrShape(AdsrKey(snd[call'.site]))
       /\ (cb' # cb /\ CbAsksCurve # 0) =>
            snd'[CbAsksCurve].adsr1 = AdsrShape(AdsrKey(snd[CbAsksCurve]))
      ]_vars

-----------------------------------------------------------------------------
\* The oscilloscope.

\* C21: get_oscilloscope_as_array called while the history is empty or holds
\* fewer than 1000 frames returns an all-zero array of shape (height, width, 4)
\* for the size asked, with the timestamps 0 and 0, and raises no error.
C21_ScopeZerosOnShortHistory ==
    [][(/\ call' # call
        /\ call'.fn = "get_oscilloscope_as_array"
        /\ SumSeq(_al) < 1000) =>
            /\ call'.err = ""
            /\ call'.out.early
            /\ call'.out.zeros
            /\ call'.out.shape = <<call'.arg[2], call'.arg[1], 4>>
            /\ call'.out.ts = 0
            /\ call'.out.te = 0]_vars

C21_Witness ==
    /\ call.fn = "get_oscilloscope_as_array"
    /\ call.arg = <<512, 256>>
    /\ call.out.early
    /\ call.out.shape = <<256, 512, 4>>
    /\ call.out.zeros
    /\ call.out.seen = 512

-----------------------------------------------------------------------------
\* Sprite.

\* C22: setting the width to w makes width read back as w and the height
\* texture height x w / texture width, and after any sequence of scale, width
\* and height assignments height / width is the texture's height / width.
C22_WidthKeepsAspect ==
    /\ call.fn = "width" =>
          /\ width(sprite) = call.arg[1]
          /\ height(sprite) =
                 RDiv(RMul[<<Textures[sprite.img].height, 1>>, call.arg[1]],
                      <<Textures[sprite.img].width, 1>>)
    /\ RDiv(height(sprite), width(sprite)) =
          Rat[Textures[sprite.img].height, Textures[sprite.img].width]

C22_Witness ==
    /\ call.fn = "width"
    /\ call.arg = << <<200, 1>> >>
    /\ sprite.img = 3
    /\ sprite.scale0 = << <<200, 1>>, <<320, 1>> >>

\* C23 as stated: assigning a new image leaves the width and the height on
\* screen as they were, also when the new texture's native size differs.
C23_ImageKeepsSize ==
    call.fn = "image" =>
        /\ width(sprite) = call.out.width
        /\ height(sprite) = call.out.height

\* C23: assigning a new image leaves the scale as it was; the width and the
\* height on screen become the scale times the new texture's native width and
\* height, which are the previous ones when the native size is the same.
C23_ImageKeepsScale ==
    call.fn = "image" =>
        /\ scale(sprite) = call.out.scale
        /\ width(sprite) = RMul[call.out.scale, <<Textures[sprite.img].width, 1>>]
        /\ height(sprite) = RMul[call.out.scale, <<Textures[sprite.img].height, 1>>]
        /\ Textures[sprite.img] = Textures[call.out.img] =>
              /\ width(sprite) = call.out.width
              /\ height(sprite) = call.out.height

C23_Witness ==
    /\ call.fn = "image"
    /\ call.out.img = 1
    /\ sprite.img = 3
    /\ call.out.width = <<200, 1>>
    /\ sprite.scale0 = << <<100, 1>>, <<160, 1>> >>

C26_RadiusCovers ==
    call.fn = "radius" =>
        \A v \in {call.out.trbl[1], call.out.trbl[3]},
           u \in {call.out.trbl[2], call.out.trbl[4]} :
            ~RLess(call.out.rs, RAdd[RMul[v, v], RMul[u, u]])

\* C25: two sprites of the same image, scale, angle and anchor whose distance
\* is more than twice the radius: collisions_with returns the empty array of
\* the bounding-box test and the pixel routine is not called.
C25_FarApartRejected ==
    /\ call.fn = "collisions_with"
    /\ RLess(RMul[<<4, 1>>, call.out.rs], call.out.distance2)
    => call.out.via = "empty"

C28_AnchorFraction ==
    call.fn = "set_anchor" =>
        /\ (call.arg[1].s = "num" /\ ~RLess(call.arg[1].v, RZero)
                /\ ~RLess(ROne, call.arg[1].v))
              => sprite.anchor[1] = call.arg[1].v
        /\ (call.arg[2].s = "num" /\ ~RLess(call.arg[2].v, RZero)
                /\ ~RLess(ROne, call.arg[2].v))
              => sprite.anchor[2] = call.arg[2].v

-----------------------------------------------------------------------------
\* The play index and the playing set.

\* C29: while a sound is in the playing set no step of the foreground writes
\* its index: play() on it changes the reset flag and the overrides only.
C29_IndexWrittenByCallbackOnly ==
    [][\A s \in 1 .. Len(snd) :
          /\ \E i \in 1 .. Len(PlayingSet) : PlayingSet[i] = s
          /\ fg' # fg
          => snd'[s].index = snd[s].index]_vars

\* C30: in callbacks that see no quit signal a drained sound is put back in
\* the queue before the callback ends or has its playing flag set to False in
\* that callback: a sound whose playing flag is True is in the queue or in
\* the list of the callback that is running.
C30_PlayingIsQueuedOrHeld ==
    \A s \in 1 .. Len(snd) :
        snd[s].playing =>
            \/ \E i \in 1 .. Len(_soundsq) : _soundsq[i] = s
            \/ /\ cb.pc # "raised"
               /\ \E i \in 1 .. Len(Held) : Held[i] = s

-----------------------------------------------------------------------------
\* _consume.

\* The blocks _consume has collected are N frames in all; a block read from
\* the buffer lies inside it, and the block after one that ended at the buffer
\* end starts at frame 0.
ConsumedN ==
    cb.pc = "shape" =>
        /\ SegRows(cb.bl) = cb.frames
        /\ \A i \in 1 .. Len(cb.bl) :
              cb.bl[i].b # 0 =>
                  /\ cb.bl[i].n >= 1
                  /\ cb.bl[i].at + cb.bl[i].n <= BufLen(cb.bl[i].b)
                  /\ (i < Len(cb.bl) /\ cb.bl[i + 1].b # 0) =>
                        /\ cb.bl[i].at + cb.bl[i].n = BufLen(cb.bl[i].b)
                        /\ cb.bl[i + 1].at = 0

\* C31: _consume(N) on a loaded sound ends, returns N frames (silence past the
\* end of a buffer that does not loop and after the sound became done, a
\* looping buffer read on from its start) and raises no error.
C31_ConsumeReturnsN ==
    /\ ConsumedN
    /\ cb.pc # "raised"

-----------------------------------------------------------------------------
\* The triangle wave.

-----------------------------------------------------------------------------
\* The envelope rows of a chunk.

\* The first read of the buffer for a chunk is at the index _consume took as
\* the start of the envelope slice.
SliceStartsAtRead ==
    (cb.pc = "c0_read" /\ cb.bl = <<>> /\ snd[cb.s].duration # 0)
        => snd[cb.s].index = cb.ix

\* The envelope slice has as many rows as the chunk.
SliceCoversChunk ==
    (cb.pc \in {"shape", "raised"} /\ snd[cb.s].duration # 0)
        => /\ get_adsr(snd[cb.s]).adsr1 # <<>>
           /\ AdsrSliceLen(get_adsr(snd[cb.s]).adsr1, cb.ix, SegRows(cb.bl))
                 = SegRows(cb.bl)

\* C33: when _consume applies the envelope, with callbacks of at most 4096
\* frames, the rows multiplied into the chunk are rows i .. i + N - 1 of the
\* curve, i the play index of the first buffer frame read for the chunk.
C33_EnvelopeRowsOfChunk ==
    /\ SliceStartsAtRead
    /\ SliceCoversChunk

-----------------------------------------------------------------------------
\* Re-triggers and the playing flag.

\* C34: once play() has returned on a sound that was playing (it set the reset
\* flag), and until the callback reads the sound again, the sound is in the
\* queue or in the list of the running callback and is not dropped, unless
\* stop() was called after that play().
C34_RetriggerKept ==
    \A s \in 1 .. Len(snd) :
        (gh.armed[s] /\ ~gh.stopped[s]) => (snd[s].playing /\ Occurrences(s) = 1)

\* No call of play() is in progress and no callback is running.
Quiescent == fg.pc = "idle" /\ cb.pc \in {"idle", "raised"}

\* C35: in every quiescent state a sound's playing flag is True exactly when
\* the sound is in the queue of playing sounds, also after a callback that met
\* the quit signal in the queue or failed while mixing.
C35_PlayingIffQueued ==
    Quiescent =>
        \A s \in 1 .. Len(snd) :
            snd[s].playing <=> (\E i \in 1 .. Len(_soundsq) : _soundsq[i] = s)

\* C36: the attribute of note generated for a table name and an octave in
\* 0 .. 7 resolves through get_note_key to table[name] + 12 * octave + 11.
C36_AttributeResolvesToItsOctave ==
    call.fn = "note" =>
        /\ call.err = ""
        /\ call.out = _notes[call.arg[1]] + 12 * call.arg[2] + 11

====
